---- MODULE Spec2Model ----
(***************************************************************************)
(* PicPurge (TypeScript variant): the ingestion pipeline of src/src/main.ts *)
(* (runProcessing with its insert buffer and batched flush), the worker of  *)
(* src/src/worker.ts (processImage), the duplicate resolver findDuplicates, *)
(* the similarity pass findSimilarImages and the recycle endpoint of        *)
(* src/src/server.ts, over the images table of src/src/database.ts.         *)
(*                                                                         *)
(* Granularity.  Node runs one callback at a time; a handler is cut where   *)
(* it awaits something that needs a later event-loop turn (file I/O, a      *)
(* store statement, a timer).  `await imageFiles.next()` on the in-memory   *)
(* generator of main.ts:476-480 settles within the same turn, so it is not  *)
(* a cut, and the continuations of the handlers that await a flush run in   *)
(* the turn that settles it.  findDuplicates, findSimilarImages and a       *)
(* recycle request are each taken as one step.  Failures of the store, of   *)
(* the file system and of a worker are nondeterministic choices wherever    *)
(* the code can meet them.                                                  *)
(*                                                                         *)
(* Components.  Besides the pipeline (Spec, FairSpec) the module follows    *)
(* the two passes alone (PassSpec), the passes run again over a store that  *)
(* has grown (RerunSpec), sortImages of main.ts:322-383 (SortSpec), the     *)
(* content key of worker.ts:92-109 (HashSpec), and from the Go variant      *)
(* RecycleFile of src/go/util/file.go (RecycleSpec) and the store handle    *)
(* of src/go/database/database.go (DbSpec), and the handleRecycle of the    *)
(* earlier Go server in src/unnamed/part_002 (HandlerSpec).  BurstSpec is   *)
(* the pipeline on a stream one longer than a batch, BinSpec the program on *)
(* files that share base names.  All of them share the variables below; a   *)
(* component leaves the others' variables unchanged.                        *)
(***************************************************************************)
EXTENDS Integers, Sequences, FiniteSets, TLC

\* ---------------------------------------------------------------- bounds
MaxFiles   == 2      \* longest input stream
MaxWorkers == 2      \* most worker threads (os.cpus().length - 1)
BATCH_SIZE == 2      \* main.ts:37 (500 there), scaled to the stream length
MaxRows    == 3      \* most rows of a store the analysis passes start from

\* ------------------------------------------------------- the input files
Paths == {"d1/a.jpg", "d2/a.jpg", "d1/b.jpg", "d1/s.jpg"}

\* further files, each in a directory of its own, for the store the analysis
\* passes are run over
SamplePaths == {"e1/c.jpg", "e2/d.jpg", "e3/t.jpg", "e4/u.jpg", "e5/f.jpg",
                "e6/g.jpg", "e7/h.jpg", "e8/i.jpg", "e9/a.jpg"}
AllPaths == Paths \cup SamplePaths

\* the files of the sorting runs: two pictures of one name taken in the same
\* second, a copy of the first, a picture of another day, and two files an
\* earlier sorting run left under the root and under r/sorted
SortFiles == {"r/a/x.jpg", "r/b/x.jpg", "r/c/x.jpg", "r/d/y.png",
              "r/2024/01/20240101120000.000001.jpg",
              "r/sorted/2024/01/20240101120000.000001.jpg"}

\* the files of the hashing runs: a JPEG with an EXIF segment, the same
\* picture with the segment removed by another tool, a file with the bytes of
\* the first under another extension, and a different picture
HashFiles == {"x1/p.jpg", "x2/p.jpg", "x3/p.png", "x4/q.jpg"}

\* the files of the runs that fill the recycle directory: two copies of one
\* picture and two different small files of one base name
BinFiles == {"d1/a.jpg", "d1/s.jpg", "d2/a.jpg", "d3/s.jpg"}

\* stat.size of the file at a path
FileSize(p) ==
    CASE p = "d1/a.jpg" -> 20480
      [] p = "x1/p.jpg" -> 30100
      [] p = "x2/p.jpg" -> 30000
      [] p = "x3/p.png" -> 30100
      [] p = "d2/a.jpg" -> 20480
      [] p = "d1/b.jpg" -> 10240
      [] p = "d1/s.jpg" -> 10239
      [] p = "d3/s.jpg" -> 5000
      [] OTHER -> 20480

\* the EXIF segment of the file ("" when it has none) and its length
Exif(p) ==
    CASE p = "x1/p.jpg" -> "E"
      [] p = "x3/p.png" -> "E"
      [] OTHER -> ""
ExifLength(p) == IF Exif(p) = "" THEN 0 ELSE 100

\* worker.ts:81-82: the path ends with .jpg or .jpeg
IsJpegName(p) == p \notin {"x3/p.png", "r/d/y.png"}

\* the bytes of the file apart from its EXIF segment (files with equal bytes
\* and equal segments are byte-identical)
FileBytes(p) ==
    CASE p = "d1/a.jpg" -> "A"
      [] p = "x1/p.jpg" -> "P"
      [] p = "x2/p.jpg" -> "P"
      [] p = "x3/p.png" -> "P"
      [] p = "d2/a.jpg" -> "A"
      [] p = "d1/b.jpg" -> "B"
      [] p = "d1/s.jpg" -> "S"
      [] p = "e9/a.jpg" -> "A"
      [] p = "r/a/x.jpg" -> "X"
      [] p = "r/c/x.jpg" -> "X"
      [] OTHER -> p

\* create_date of the row of a file, as <<year, month, day, hours, minutes,
\* seconds>> of local time (main.ts:124: the date the worker read from the
\* file, or else the file's birthtime)
CreateDate(p) ==
    CASE p = "r/d/y.png" -> <<2023, 12, 31, 23, 59, 59>>
      [] OTHER -> <<2024, 1, 1, 12, 0, 0>>

\* path.extname, for the files of the sorting runs
extname(p) == IF p = "r/d/y.png" THEN ".png" ELSE ".jpg"

\* path.basename
basename(p) ==
    CASE p = "d1/a.jpg" -> "a.jpg"
      [] p = "d2/a.jpg" -> "a.jpg"
      [] p = "d1/b.jpg" -> "b.jpg"
      [] p = "d1/s.jpg" -> "s.jpg"
      [] p = "d3/s.jpg" -> "s.jpg"
      [] p = "e1/c.jpg" -> "c.jpg"
      [] p = "e2/d.jpg" -> "d.jpg"
      [] p = "e3/t.jpg" -> "t.jpg"
      [] p = "e4/u.jpg" -> "u.jpg"
      [] p = "e5/f.jpg" -> "f.jpg"
      [] p = "e6/g.jpg" -> "g.jpg"
      [] p = "e7/h.jpg" -> "h.jpg"
      [] p = "e8/i.jpg" -> "i.jpg"
      [] p = "e9/a.jpg" -> "a.jpg"
      [] p = "x1/p.jpg" -> "p.jpg"
      [] p = "x2/p.jpg" -> "p.jpg"
      [] p = "x3/p.png" -> "p.png"
      [] p = "x4/q.jpg" -> "q.jpg"
      [] p = "r/a/x.jpg" -> "x.jpg"
      [] p = "r/b/x.jpg" -> "x.jpg"
      [] p = "r/c/x.jpg" -> "x.jpg"
      [] p = "r/d/y.png" -> "y.png"
      [] p = "r/2024/01/20240101120000.000001.jpg" -> "20240101120000.000001.jpg"
      [] p = "r/sorted/2024/01/20240101120000.000001.jpg" -> "20240101120000.000001.jpg"

\* position of a path in the directory listing (orders the input stream)
PathOrd(p) ==
    CASE p = "d1/a.jpg" -> 1
      [] p = "d1/b.jpg" -> 2
      [] p = "d1/s.jpg" -> 3
      [] p = "d2/a.jpg" -> 4
      [] p = "d3/s.jpg" -> 5

\* worker.ts:93: imghash.hash of the picture, a hex string, here the
\* sequence of its hex digits (two of them, sixteen there)
PHash(p) ==
    CASE p = "d1/b.jpg" -> <<0, 7>>
      [] p = "e1/c.jpg" -> <<3, 15>>
      [] p = "e2/d.jpg" -> <<0, 15>>
      [] OTHER -> <<0, 0>>

\* worker.ts:96,112: metadata.width of the picture
Width(p) ==
    CASE p = "e3/t.jpg" -> 110
      [] p = "e4/u.jpg" -> 99
      [] p = "e5/f.jpg" -> 89
      [] p = "e6/g.jpg" -> 84
      [] p = "e7/h.jpg" -> 72
      [] p = "e8/i.jpg" -> 72
      [] OTHER -> 100

\* worker.ts:96,113: metadata.height of the picture
Height(p) ==
    CASE p = "e6/g.jpg" -> 90
      [] p = "e7/h.jpg" -> 84
      [] p = "e8/i.jpg" -> 83
      [] OTHER -> 100

\* worker.ts:65  stat.size < 10 * 1024
SizeFloor == 10 * 1024
\* faulty variant of the test: the floor itself counts as small
IsSmallInclusive(p) == FileSize(p) <= SizeFloor
IsSmall(p) == FileSize(p) < SizeFloor

\* worker.ts:79-90: the bytes that are hashed, for a .jpg/.jpeg path the
\* file with its EXIF segment removed (piexif.remove), else the whole file
BufferForHashing(p) ==
    IF IsJpegName(p) THEN FileBytes(p) ELSE Exif(p) \o FileBytes(p)

\* worker.ts:92,109  md5: `${md5}-${fileBuffer.length}`
ContentHash(p) == <<BufferForHashing(p), FileSize(p)>>

NULL == 0            \* SQL NULL / JS null in an id or promise slot
NoList == <<0>>      \* SQL NULL in similar_images (no list holds the id 0)

\* the streams main.ts:445-459 can collect: listing order, a path may repeat
\* when the same directory is given twice
Streams ==
    { s \in UNION { [1..n -> Paths] : n \in 0..MaxFiles } :
        \A i \in DOMAIN s : \A j \in DOMAIN s :
            i < j => PathOrd(s[i]) <= PathOrd(s[j]) }

VARIABLES
    numWorkers,         \* main.ts:43, fixed for the run
    stream,             \* allImageFiles, the paths the generator yields
    nextIdx,            \* position of the generator imageFiles
    pcMain,             \* where main's action is
    loopI,              \* i of the initial dispatch loop
    activeWorkerCount,  \* main.ts:102
    task,               \* per stream position: state of its worker/handler
    processedCount,     \* main.ts:48
    imageInsertBuffer,  \* main.ts:38, stream positions of buffered results
    flushPromise,       \* main.ts:39: "null", or a "pending"/"rejected" promise
    flushPc,            \* statement the running flush waits for
    currentBatch,       \* main.ts:58
    flushPos,           \* index of the INSERT in progress
    txSnapshot,         \* the store as of BEGIN, what ROLLBACK restores
    intervalActive,     \* flushIntervalId is set and not cleared
    resolved,           \* runProcessing's promise is resolved
    images,             \* rows of table images
    nextId,             \* AUTOINCREMENT sequence
    onDisk,             \* paths whose file exists at its original place
    recycleDir,         \* file name in the recycle directory -> source path
    flushedLost,        \* history: positions of the batches that failed
    sortOption,         \* options.sort: absent, true, or the destination path
    sortedContent,      \* path written by sortImages -> the file whose bytes it holds
    goFiles,            \* Go util: path -> bytes of the file there
    recycleCall,        \* Go util: the last call of RecycleFile and its result
    goDb,               \* Go database: dbInstance, once, initErr, tempDBFile
    goCalls,            \* Go database: per goroutine, its call and what it returned
    goRows,             \* Go server: file_path -> is_recycled of its row
    goResponse          \* Go server: the last answer of handleRecycle

vars == <<numWorkers, stream, nextIdx, pcMain, loopI, activeWorkerCount,
          task, processedCount, imageInsertBuffer, flushPromise, flushPc,
          currentBatch, flushPos, txSnapshot, intervalActive, resolved,
          images, nextId, onDisk, recycleDir, flushedLost, sortOption,
          sortedContent, goFiles, recycleCall, goDb, goCalls, goRows,
          goResponse>>

flushVars == <<imageInsertBuffer, flushPromise, flushPc, currentBatch,
               flushPos, txSnapshot>>
storeVars == <<images, nextId>>
diskVars  == <<onDisk, recycleDir>>
sortVars  == <<sortOption, sortedContent>>
goVars    == <<goFiles, recycleCall, goDb, goCalls, goRows, goResponse>>

Positions == 1..Len(stream)
NoFile == "-"
\* options.sort is undefined (no --sort), or true (--sort without a path)
SortOff == "-"
SortInPlace == "."
\* no path has been written by sortImages
NoContent == [p \in {} |-> p]

\* the Go packages util and database before any call (database.go:16-21)
MaxGoroutines == 2
\* the calls of RecycleFile are followed while at most this many files exist
MaxGoFiles == 3
Goroutines == 1..MaxGoroutines
NoCall == [filePath |-> "-", err |-> "-"]
\* no request has been answered
NoResponse == [filePath |-> "-", Success |-> FALSE]
NewDb == [dbInstance |-> "nil", once |-> "new", initErr |-> "nil",
          tempDBFile |-> "", closed |-> FALSE, inits |-> 0]
GoIdle ==
    /\ goFiles = NoContent
    /\ recycleCall = NoCall
    /\ goDb = NewDb
    /\ goCalls = [g \in Goroutines |-> [pc |-> "idle", db |-> "-", err |-> "-"]]
    /\ goRows = NoContent
    /\ goResponse = NoResponse
\* server.ts:565: the random suffix, one value standing for 0000..9999
Suffixes == {"", "_0001"}
RecycleNames == {<<basename(p), x>> : p \in AllPaths \cup SortFiles \cup HashFiles, x \in Suffixes}

SeqToSet(s) == {s[i] : i \in DOMAIN s}

\* ------------------------------------------------------------------ Init
Init ==
    /\ numWorkers \in 1..MaxWorkers
    /\ stream \in Streams
    /\ nextIdx = 1
    /\ pcMain = "scan"
    /\ loopI = 0
    /\ activeWorkerCount = 0
    /\ task = [k \in 1..Len(stream) |-> "pending"]
    /\ processedCount = 0
    /\ imageInsertBuffer = <<>>
    /\ flushPromise = "null"
    /\ flushPc = "idle"
    /\ currentBatch = <<>>
    /\ flushPos = 0
    /\ txSnapshot = <<>>
    /\ intervalActive = FALSE
    /\ resolved = FALSE
    /\ images = {}
    /\ nextId = 1
    /\ onDisk = SeqToSet(stream)
    /\ recycleDir = [n \in RecycleNames |-> NoFile]
    /\ flushedLost = {}
    /\ sortOption = SortOff
    /\ sortedContent = NoContent
    /\ GoIdle

\* ------------------------------------------------- the flush (main.ts:51-91)
\* main.ts:58-62,89: take the whole buffer `buf` as the batch, open the
\* promise and issue BEGIN TRANSACTION
BeginFlush(buf) ==
    /\ currentBatch' = buf
    /\ imageInsertBuffer' = <<>>
    /\ flushPromise' = "pending"
    /\ flushPc' = "begin"
    /\ flushPos' = 0
    /\ txSnapshot' = <<>>

\* ------------------------------------------- the pool (main.ts:100-207)
\* faulty variant of the loop bound: i <= numWorkers
LoopLimitInclusive == numWorkers + 1
\* main.ts:201: the bound of the initial dispatch loop
LoopLimit == numWorkers

\* main.ts:169-176 and 187-194: the handler's tail once the worker's slot is
\* free, `cnt` being activeWorkerCount at that moment.  Either admits the
\* next path (processFile, main.ts:104-107,197) or, on an exhausted stream
\* with no active worker, clears the timer and calls the final flush
\* (main.ts:52-59), which returns at once on an empty buffer (resolve()
\* follows), waits for a pending flushPromise, throws on a rejected one, or
\* starts its own flush.
AdmitOrFinish(k, cnt) ==
    IF nextIdx <= Len(stream)
    THEN /\ nextIdx' = nextIdx + 1
         /\ activeWorkerCount' = cnt + 1
         /\ task' = [task EXCEPT ![k] = "done", ![nextIdx] = "running"]
         /\ UNCHANGED <<intervalActive, resolved, flushVars>>
    ELSE IF cnt = 0
    THEN /\ nextIdx' = nextIdx
         /\ activeWorkerCount' = cnt
         /\ intervalActive' = FALSE
         /\ IF imageInsertBuffer = <<>>
            THEN /\ resolved' = TRUE
                 /\ task' = [task EXCEPT ![k] = "done"]
                 /\ UNCHANGED flushVars
            ELSE IF flushPromise = "pending"
            THEN /\ task' = [task EXCEPT ![k] = "waitflush"]
                 /\ UNCHANGED <<resolved, flushVars>>
            ELSE IF flushPromise = "rejected"
            THEN /\ task' = [task EXCEPT ![k] = "aborted"]
                 /\ UNCHANGED <<resolved, flushVars>>
            ELSE /\ BeginFlush(imageInsertBuffer)
                 /\ task' = [task EXCEPT ![k] = "awaitown"]
                 /\ UNCHANGED resolved
    ELSE /\ nextIdx' = nextIdx
         /\ activeWorkerCount' = cnt
         /\ task' = [task EXCEPT ![k] = "done"]
         /\ UNCHANGED <<intervalActive, resolved, flushVars>>

\* main.ts:465-482 and 94-98,100-102: main starts runProcessing on a
\* non-empty file list (timer set, dispatch loop entered) and skips it on an
\* empty one
MainScan ==
    /\ pcMain = "scan"
    /\ IF Len(stream) > 0
       THEN /\ pcMain' = "processing"
            /\ intervalActive' = TRUE
       ELSE /\ pcMain' = "dups"
            /\ UNCHANGED intervalActive
    /\ UNCHANGED <<numWorkers, stream, nextIdx, loopI, activeWorkerCount, task,
                   processedCount, resolved, flushVars, storeVars, diskVars,
                   flushedLost, sortVars, goVars>>

\* main.ts:200-206: one iteration of the initial dispatch loop
DispatchLoop ==
    /\ pcMain = "processing"
    /\ loopI < LoopLimit
    /\ IF nextIdx > Len(stream)
       THEN /\ loopI' = LoopLimit                       \* next.done: break
            /\ UNCHANGED <<nextIdx, activeWorkerCount, task>>
       ELSE /\ loopI' = loopI + 1
            /\ nextIdx' = nextIdx + 1
            /\ activeWorkerCount' = activeWorkerCount + 1
            /\ task' = [task EXCEPT ![nextIdx] = "running"]
    /\ UNCHANGED <<numWorkers, stream, pcMain, processedCount,
                   intervalActive, resolved, flushVars, storeVars, diskVars,
                   flushedLost, sortVars, goVars>>

\* main.ts:158-167: the synchronous end of the message handler for a moved
\* or failed file; it then sleeps 1 ms
AfterMessage(k) ==
    /\ processedCount' = processedCount + 1
    /\ activeWorkerCount' = activeWorkerCount - 1
    /\ task' = [task EXCEPT ![k] = "delay"]
    /\ UNCHANGED <<numWorkers, stream, pcMain, nextIdx, loopI,
                   intervalActive, resolved, flushVars, storeVars,
                   flushedLost, sortVars, goVars>>

\* worker.ts:64-76 then main.ts:111-114: a file below the size floor is
\* renamed into the recycle directory under its base name
SmallFileMoved(k) ==
    /\ task[k] = "running"
    /\ stream[k] \in onDisk
    /\ IsSmall(stream[k])
    /\ onDisk' = onDisk \ {stream[k]}
    /\ recycleDir' = [recycleDir EXCEPT ![<<basename(stream[k]), "">>] = stream[k]]
    /\ AfterMessage(k)

\* worker.ts:68-73,121-123 then main.ts:115-118: the move fails.  Either
\* rename and copyFile both fail (nothing changes) or the copy succeeds and
\* unlink fails (the file is at both places); the worker reports an error
SmallFileMoveFails(k) ==
    /\ task[k] = "running"
    /\ stream[k] \in onDisk
    /\ IsSmall(stream[k])
    /\ \/ UNCHANGED diskVars
       \/ /\ recycleDir' = [recycleDir EXCEPT ![<<basename(stream[k]), "">>] = stream[k]]
          /\ UNCHANGED onDisk
    /\ AfterMessage(k)

\* worker.ts:64,78-123 then main.ts:115-118: stat fails on a missing file,
\* or reading/hashing/decoding a file of at least the floor throws
ExtractionError(k) ==
    /\ task[k] = "running"
    /\ stream[k] \in onDisk => ~IsSmall(stream[k])
    /\ UNCHANGED diskVars
    /\ AfterMessage(k)

\* worker.ts:78-120 then main.ts:119-123: the worker posts a result and the
\* handler awaits fs.stat and the thumbnail
ExtractionResult(k) ==
    /\ task[k] = "running"
    /\ stream[k] \in onDisk
    /\ ~IsSmall(stream[k])
    /\ task' = [task EXCEPT ![k] = "stat"]
    /\ UNCHANGED <<numWorkers, stream, pcMain, nextIdx, loopI,
                   activeWorkerCount, processedCount, intervalActive,
                   resolved, flushVars, storeVars, diskVars, flushedLost, sortVars, goVars>>

\* main.ts:123: fs.stat throws (the file was removed after the worker read
\* it); nothing catches it, the handler ends there
StatFails(k) ==
    /\ task[k] = "stat"
    /\ onDisk' = onDisk \ {stream[k]}
    /\ task' = [task EXCEPT ![k] = "dead"]
    /\ UNCHANGED <<numWorkers, stream, pcMain, nextIdx, loopI,
                   activeWorkerCount, processedCount, intervalActive,
                   resolved, flushVars, storeVars, recycleDir, flushedLost, sortVars, goVars>>

\* main.ts:139-156: the size trigger after a push that left `buf`
PushTrigger(buf) ==
    IF Len(buf) >= BATCH_SIZE /\ flushPromise = "null"
    THEN BeginFlush(buf)
    ELSE /\ imageInsertBuffer' = buf
         /\ UNCHANGED <<flushPromise, flushPc, currentBatch, flushPos,
                        txSnapshot>>

\* main.ts:123-167: stat and thumbnail done; the result is pushed, the size
\* trigger checked, the slot freed; the handler then sleeps 1 ms
PushResult(k) ==
    /\ task[k] = "stat"
    /\ stream[k] \in onDisk
    /\ PushTrigger(Append(imageInsertBuffer, k))
    /\ processedCount' = processedCount + 1
    /\ activeWorkerCount' = activeWorkerCount - 1
    /\ task' = [task EXCEPT ![k] = "delay"]
    /\ UNCHANGED <<numWorkers, stream, pcMain, nextIdx, loopI,
                   intervalActive, resolved, storeVars, diskVars,
                   flushedLost, sortVars, goVars>>

\* main.ts:167-176: the 1 ms sleep is over
HandlerTail(k) ==
    /\ task[k] = "delay"
    /\ AdmitOrFinish(k, activeWorkerCount)
    /\ UNCHANGED <<numWorkers, stream, pcMain, loopI, processedCount,
                   storeVars, diskVars, flushedLost, sortVars, goVars>>

\* main.ts:179-195: the worker thread dies; the 'error' handler frees the
\* slot and goes on at once
WorkerError(k) ==
    /\ task[k] = "running"
    /\ AdmitOrFinish(k, activeWorkerCount - 1)
    /\ UNCHANGED <<numWorkers, stream, pcMain, loopI, processedCount,
                   storeVars, diskVars, flushedLost, sortVars, goVars>>

\* faulty variant of the timer: it does not look at flushPromise
TimerFlushUnguarded ==
    /\ intervalActive
    /\ imageInsertBuffer # <<>>
    /\ BeginFlush(imageInsertBuffer)
    /\ UNCHANGED <<numWorkers, stream, pcMain, nextIdx, loopI,
                   activeWorkerCount, task, processedCount, intervalActive,
                   resolved, storeVars, diskVars, flushedLost, sortVars, goVars>>

\* main.ts:94-98: the 100 ms timer finds data and no flush in progress
TimerFlush ==
    /\ intervalActive
    /\ imageInsertBuffer # <<>>
    /\ flushPromise = "null"
    /\ BeginFlush(imageInsertBuffer)
    /\ UNCHANGED <<numWorkers, stream, pcMain, nextIdx, loopI,
                   activeWorkerCount, task, processedCount, intervalActive,
                   resolved, storeVars, diskVars, flushedLost, sortVars, goVars>>

\* handlers suspended in the final flush: at `await flushPromise`
\* (main.ts:54) and at `await currentFlushPromise` (main.ts:90)
Waiters  == {k \in Positions : task[k] = "waitflush"}
Awaiting == {k \in Positions : task[k] \in {"waitflush", "awaitown"}}

\* the flush promise rejects: every handler awaiting it throws, and
\* flushPromise becomes `fp`
FlushRejected(fp) ==
    /\ task' = [k \in Positions |-> IF k \in Awaiting THEN "aborted" ELSE task[k]]
    /\ flushPromise' = fp
    /\ flushPc' = "idle"
    /\ flushPos' = 0
    /\ currentBatch' = <<>>
    /\ txSnapshot' = <<>>
    /\ UNCHANGED <<imageInsertBuffer, resolved>>

\* main.ts:85-90 then 55-59 and 175: finally resets flushPromise and the
\* promise fulfils.  The final flush that owns the batch returns and
\* resolve() follows.  A final flush that waited checks the buffer again:
\* the first one to find data takes it as a new batch, every other one
\* returns and resolve() follows.
FlushFulfilled ==
    IF Waiters = {} \/ imageInsertBuffer = <<>>
    THEN /\ task' = [k \in Positions |-> IF k \in Awaiting THEN "done" ELSE task[k]]
         /\ resolved' = (resolved \/ Awaiting # {})
         /\ flushPromise' = "null"
         /\ flushPc' = "idle"
         /\ flushPos' = 0
         /\ currentBatch' = <<>>
         /\ txSnapshot' = <<>>
         /\ UNCHANGED imageInsertBuffer
    ELSE \E w \in Waiters :
         /\ task' = [k \in Positions |->
                        IF k = w THEN "awaitown"
                        ELSE IF k \in Awaiting THEN "done" ELSE task[k]]
         /\ resolved' = (resolved \/ Awaiting # {w})
         /\ BeginFlush(imageInsertBuffer)

\* database.ts:20-39: a fresh row, flags at their defaults
NewRow(id, p) ==
    [id |-> id, file_path |-> p, md5 |-> ContentHash(p),
     is_duplicate |-> FALSE, duplicate_of |-> NULL,
     phash |-> PHash(p), image_width |-> Width(p), image_height |-> Height(p),
     similar_images |-> NoList, create_date |-> CreateDate(p)]

\* faulty variant of the statement: a plain INSERT, the UNIQUE constraint not applied
InsertAlways(rows, id, p) == rows \cup {NewRow(id, p)}

\* main.ts:65-66 with database.ts:23: INSERT OR IGNORE on UNIQUE file_path
InsertOrIgnore(rows, id, p) ==
    IF \E r \in rows : r.file_path = p
    THEN rows
    ELSE rows \cup {NewRow(id, p)}

\* faulty variant of the catch block: no ROLLBACK, the rows inserted so far stay
UncommittedImages == images

\* main.ts:84: the rows ROLLBACK leaves, those as of BEGIN
RolledBackImages == txSnapshot[1]

\* main.ts:62: BEGIN TRANSACTION succeeds
FlushBegin ==
    /\ flushPc = "begin"
    /\ flushPc' = "insert"
    /\ flushPos' = 1
    /\ txSnapshot' = <<images, nextId>>
    /\ UNCHANGED <<numWorkers, stream, pcMain, nextIdx, loopI,
                   activeWorkerCount, task, processedCount,
                   imageInsertBuffer, flushPromise, currentBatch,
                   intervalActive, resolved, storeVars, diskVars,
                   flushedLost, sortVars, goVars>>

\* main.ts:62: BEGIN TRANSACTION throws outside the try; the promise
\* rejects, neither catch nor finally runs, flushPromise keeps the promise
FlushBeginFails ==
    /\ flushPc = "begin"
    /\ FlushRejected("rejected")
    /\ flushedLost' = flushedLost \cup SeqToSet(currentBatch)
    /\ UNCHANGED <<numWorkers, stream, pcMain, nextIdx, loopI,
                   activeWorkerCount, processedCount, intervalActive,
                   storeVars, diskVars, sortVars, goVars>>

\* main.ts:64-81: one INSERT OR IGNORE of the batch; after the last one
\* COMMIT is issued
FlushInsert ==
    /\ flushPc = "insert"
    /\ images' = InsertOrIgnore(images, nextId, stream[currentBatch[flushPos]])
    /\ nextId' = IF images' = images THEN nextId ELSE nextId + 1
    /\ IF flushPos = Len(currentBatch)
       THEN flushPc' = "commit" /\ flushPos' = 0
       ELSE flushPc' = "insert" /\ flushPos' = flushPos + 1
    /\ UNCHANGED <<numWorkers, stream, pcMain, nextIdx, loopI,
                   activeWorkerCount, task, processedCount,
                   imageInsertBuffer, flushPromise, currentBatch, txSnapshot,
                   intervalActive, resolved, diskVars, flushedLost, sortVars, goVars>>

\* main.ts:65,81-84: an INSERT or the COMMIT throws; ROLLBACK is issued
FlushStatementFails ==
    /\ flushPc \in {"insert", "commit"}
    /\ flushPc' = "rollback"
    /\ flushPos' = 0
    /\ UNCHANGED <<numWorkers, stream, pcMain, nextIdx, loopI,
                   activeWorkerCount, task, processedCount,
                   imageInsertBuffer, flushPromise, currentBatch, txSnapshot,
                   intervalActive, resolved, storeVars, diskVars,
                   flushedLost, sortVars, goVars>>

\* main.ts:81,85-87: COMMIT succeeds
FlushCommit ==
    /\ flushPc = "commit"
    /\ FlushFulfilled
    /\ UNCHANGED <<numWorkers, stream, pcMain, nextIdx, loopI,
                   activeWorkerCount, processedCount, intervalActive,
                   storeVars, diskVars, flushedLost, sortVars, goVars>>

\* main.ts:82-87: ROLLBACK succeeds, the store is back at its state as of
\* BEGIN
FlushRollback ==
    /\ flushPc = "rollback"
    /\ images' = RolledBackImages
    /\ nextId' = txSnapshot[2]
    /\ FlushFulfilled
    /\ flushedLost' = flushedLost \cup SeqToSet(currentBatch)
    /\ UNCHANGED <<numWorkers, stream, pcMain, nextIdx, loopI,
                   activeWorkerCount, processedCount, intervalActive,
                   diskVars, sortVars, goVars>>

\* main.ts:84-87: ROLLBACK throws because the failed statement had already
\* rolled the transaction back; the throw leaves the catch block, finally
\* runs, the promise rejects
FlushRollbackFails ==
    /\ flushPc = "rollback"
    /\ images' = RolledBackImages
    /\ nextId' = txSnapshot[2]
    /\ FlushRejected("null")
    /\ flushedLost' = flushedLost \cup SeqToSet(currentBatch)
    /\ UNCHANGED <<numWorkers, stream, pcMain, nextIdx, loopI,
                   activeWorkerCount, processedCount, intervalActive,
                   diskVars, sortVars, goVars>>

\* main.ts:482-496: await runProcessing(...) returns
MainAfterProcessing ==
    /\ pcMain = "processing"
    /\ resolved
    /\ pcMain' = "dups"
    /\ UNCHANGED <<numWorkers, stream, nextIdx, loopI, activeWorkerCount,
                   task, processedCount, intervalActive, resolved, flushVars,
                   storeVars, diskVars, flushedLost, sortVars, goVars>>

\* ------------------------------------ findDuplicates (main.ts:236-271)
\* main.ts:239: SELECT md5 FROM images GROUP BY md5 HAVING COUNT(*) > 1
DuplicateMd5s(rows) ==
    {h \in {r.md5 : r \in rows} : Cardinality({r \in rows : r.md5 = h}) > 1}

\* main.ts:247: ... WHERE md5 = ? ORDER BY id ASC
ImagesWithSameMd5(rows, h) == {r \in rows : r.md5 = h}

\* faulty variant of the choice: the last row in id order
LastImageId(group) ==
    CHOOSE i \in {r.id : r \in group} : \A r \in group : i >= r.id

\* main.ts:250: imagesWithSameMd5[0].id, the first in id order
MasterImageId(group) ==
    CHOOSE i \in {r.id : r \in group} : \A r \in group : i <= r.id

\* faulty variant of the statement: the rows after the first are deleted
MarkDuplicatesDeleting(rows) ==
    { r \in rows : ~( /\ r.md5 \in DuplicateMd5s(rows)
                      /\ r.id # MasterImageId(ImagesWithSameMd5(rows, r.md5)) ) }

\* main.ts:244-265: every row after the first of its group is updated
MarkDuplicates(rows) ==
    { IF /\ r.md5 \in DuplicateMd5s(rows)
         /\ r.id # MasterImageId(ImagesWithSameMd5(rows, r.md5))
      THEN [r EXCEPT !.is_duplicate = TRUE,
                     !.duplicate_of = MasterImageId(ImagesWithSameMd5(rows, r.md5))]
      ELSE r : r \in rows }

\* main.ts:252-262: the rows findDuplicates marks, whose files it recycles
\* under --auto-recycle-duplicates
MarkedRows(rows) ==
    {r \in rows : /\ r.md5 \in DuplicateMd5s(rows)
                  /\ r.id # MasterImageId(ImagesWithSameMd5(rows, r.md5))}

\* main.ts:212-234 for every marked row whose file is at its path: the file
\* is renamed to <recyclePath>/<basename>, replacing a file of that name (of
\* two marked files with one base name the later one stays; they are in one
\* group here, taken in id order).  The UPDATE of is_recycled that follows
\* names a column the table of database.ts:20-39 does not have: it throws,
\* the catch block logs and returns false, the store is as it was.
MovedToRecycle(rows, disk) == {r \in MarkedRows(rows) : r.file_path \in disk}
RecycleDirAfterMoves(rows, disk, dir) ==
    [n \in RecycleNames |->
        LET movers == {r \in MovedToRecycle(rows, disk) :
                          n = <<basename(r.file_path), "">>}
        IN  IF movers = {}
            THEN dir[n]
            ELSE (CHOOSE r \in movers : \A x \in movers : x.id <= r.id).file_path]

\* main.ts:496: findDuplicates runs as one step (its statements are not
\* interleaved with others here), with or without the option
\* --auto-recycle-duplicates (main.ts:431); main goes on to the similarity
\* pass
FindDuplicates ==
    /\ pcMain = "dups"
    /\ images' = MarkDuplicates(images)
    /\ \E autoRecycleDuplicates \in BOOLEAN :
          IF autoRecycleDuplicates
          THEN /\ onDisk' = onDisk \ {r.file_path : r \in MovedToRecycle(images, onDisk)}
               /\ recycleDir' = RecycleDirAfterMoves(images, onDisk, recycleDir)
          ELSE UNCHANGED diskVars
    /\ pcMain' = "similar"
    /\ UNCHANGED <<numWorkers, stream, nextIdx, loopI, activeWorkerCount,
                   task, processedCount, intervalActive, resolved, flushVars,
                   nextId, flushedLost, sortVars, goVars>>

\* ------------------------------- findSimilarImages (main.ts:273-320)
Max(x, y) == IF x >= y THEN x ELSE y
Min(x, y) == IF x <= y THEN x ELSE y

\* main.ts:33-35: every hex digit becomes its four binary digits
hexToBinary(hex) ==
    [i \in 1..(4 * Len(hex)) |->
        LET c == hex[((i - 1) \div 4) + 1]
            k == 3 - ((i - 1) % 4)
        IN  (c \div (2 ^ k)) % 2]

\* main.ts:7,308: hamming-distance over two strings of binary digits, the
\* number of places where they differ
hamming(a, b) == Cardinality({i \in DOMAIN a : a[i] # b[i]})

\* main.ts:276
phashThreshold == 3
\* faulty variant of the test: the threshold itself is too far
BelowPhashThreshold(d) == d < phashThreshold
\* main.ts:310: phashDistance <= phashThreshold
WithinPhashThreshold(d) == d <= phashThreshold

\* main.ts:282,288: a row without phash, width or height is passed over
Eligible(r) == r.phash # <<>> /\ r.image_width # 0 /\ r.image_height # 0

\* main.ts:293 for a pair exactly on the tolerance: whether the quotient,
\* computed in doubles, comes out above the double 0.1.  It is a function of
\* the dimensions: 0.10000000000000007 for 110x100 with 99x100 (above),
\* 0.09999999999999998 for 100x100 with 90x100 (not above)
TieRoundsAbove(r1, r2) ==
    LET dims == {<<r1.image_width, r1.image_height>>,
                 <<r2.image_width, r2.image_height>>}
    IN  dims = {<<110, 100>>, <<99, 100>>}

\* main.ts:284,290-295: |ar1 - ar2| / max(ar1, ar2) > 0.1 with
\* ar = width / height, which is |x - y| / max(x, y) > 1/10 for
\* x = w1 * h2 and y = w2 * h1.  The code computes it in doubles: away from
\* the tolerance the rounding does not change the outcome; exactly on it the
\* outcome is that of TieRoundsAbove
AspectRatioRejects(r1, r2) ==
    LET x == r1.image_width * r2.image_height
        y == r2.image_width * r1.image_height
        d == Max(x, y) - Min(x, y)
    IN  IF 10 * d = Max(x, y) THEN TieRoundsAbove(r1, r2) ELSE 10 * d > Max(x, y)

\* main.ts:298-305: 1 - min(area) / max(area) > 0.2.  Exactly on the
\* tolerance the double quotient is 0.8 and the difference
\* 0.19999999999999996, not above 0.2
SizeRejects(r1, r2) ==
    LET area1 == r1.image_width * r1.image_height
        area2 == r2.image_width * r2.image_height
    IN  5 * (Max(area1, area2) - Min(area1, area2)) > Max(area1, area2)

\* main.ts:286-313: the rows after image1 (in id order, the order SELECT
\* returns) that get into its list
SimilarOf(rows, image1) ==
    {image2.id : image2 \in
        {r \in rows : /\ r.id > image1.id
                      /\ Eligible(r)
                      /\ ~AspectRatioRejects(image1, r)
                      /\ ~SizeRejects(image1, r)
                      /\ WithinPhashThreshold(
                            hamming(hexToBinary(image1.phash), hexToBinary(r.phash)))}}

\* the ids of a set in ascending order
SortedIds(S) ==
    CHOOSE q \in [1..Cardinality(S) -> S] :
        \A i \in DOMAIN q : \A j \in DOMAIN q : i < j => q[i] < q[j]

\* a pass that would add to the stored list instead of replacing it
StoreSimilarAppending(rows) ==
    { IF Eligible(r) /\ SimilarOf(rows, r) # {}
      THEN [r EXCEPT !.similar_images =
                IF r.similar_images = NoList
                THEN SortedIds(SimilarOf(rows, r))
                ELSE r.similar_images \o SortedIds(SimilarOf(rows, r))]
      ELSE r : r \in rows }

\* main.ts:280-317: every eligible row with a non-empty list gets it written
StoreSimilar(rows) ==
    { IF Eligible(r) /\ SimilarOf(rows, r) # {}
      THEN [r EXCEPT !.similar_images = SortedIds(SimilarOf(rows, r))]
      ELSE r : r \in rows }

\* main.ts:524: findSimilarImages runs as one step, then main goes on to
\* sortImages under --sort (main.ts:527-535) or else to start the server
\* (main.ts:542)
FindSimilarImages ==
    /\ pcMain = "similar"
    /\ images' = StoreSimilar(images)
    /\ pcMain' = IF sortOption = SortOff THEN "serving" ELSE "sort"
    /\ UNCHANGED <<numWorkers, stream, nextIdx, loopI, activeWorkerCount,
                   task, processedCount, intervalActive, resolved, flushVars,
                   nextId, diskVars, flushedLost, sortVars, goVars>>

\* --------------------------------- POST /api/recycle (server.ts:549-623)
\* server.ts:560-572: the base name, or name_<random><ext> when it is taken
RecycleDestinations(p) ==
    IF recycleDir[<<basename(p), "">>] = NoFile
    THEN {<<basename(p), "">>}
    ELSE {<<basename(p), x>> : x \in Suffixes \ {""}}

\* server.ts:587-608: the row is deleted; if it was a duplicate and its
\* master has no other duplicate left, the master's flags are cleared
DeleteAndRebalance(rows, p) ==
    LET deleted == {r \in rows : r.file_path = p}
        rest == rows \ deleted
        masters == {r.duplicate_of :
                        r \in {d \in deleted : d.is_duplicate /\ d.duplicate_of # NULL}}
    IN  { IF /\ r.id \in masters
             /\ {x \in rest : x.duplicate_of = r.id /\ x.is_duplicate} = {}
          THEN [r EXCEPT !.is_duplicate = FALSE, !.duplicate_of = NULL]
          ELSE r : r \in rest }

\* server.ts:555-618: the file is copied into the recycle directory and
\* unlinked, the store updated, {success: true} sent
Recycle(p) ==
    /\ pcMain = "serving"
    /\ p \in onDisk
    /\ \E dest \in RecycleDestinations(p) :
          recycleDir' = [recycleDir EXCEPT ![dest] = p]
    /\ onDisk' = onDisk \ {p}
    /\ images' = DeleteAndRebalance(images, p)
    /\ UNCHANGED <<numWorkers, stream, pcMain, nextIdx, loopI,
                   activeWorkerCount, task, processedCount, intervalActive,
                   resolved, flushVars, nextId, flushedLost, sortVars, goVars>>

\* ------------------------------------------------------------------ Next
Next ==
    \/ MainScan
    \/ DispatchLoop
    \/ \E k \in Positions : SmallFileMoved(k)
    \/ \E k \in Positions : SmallFileMoveFails(k)
    \/ \E k \in Positions : ExtractionError(k)
    \/ \E k \in Positions : ExtractionResult(k)
    \/ \E k \in Positions : StatFails(k)
    \/ \E k \in Positions : PushResult(k)
    \/ \E k \in Positions : HandlerTail(k)
    \/ \E k \in Positions : WorkerError(k)
    \/ TimerFlush
    \/ FlushBegin
    \/ FlushBeginFails
    \/ FlushInsert
    \/ FlushStatementFails
    \/ FlushCommit
    \/ FlushRollback
    \/ FlushRollbackFails
    \/ MainAfterProcessing
    \/ FindDuplicates
    \/ FindSimilarImages
    \/ \E p \in AllPaths : Recycle(p)

Spec == Init /\ [][Next]_vars

\* ------------------------------------- the analysis passes on a given store
\* the files that get a row (worker.ts:64: not below the size floor)
StoreFiles == {p \in AllPaths : FileSize(p) >= SizeFloor}

\* the orders in which up to MaxRows distinct files can have been inserted
InsertOrders ==
    { q \in UNION { [1..n -> StoreFiles] : n \in 0..MaxRows } :
        \A i \in DOMAIN q : \A j \in DOMAIN q : q[i] = q[j] => i = j }

\* main.ts:482-496: runProcessing has returned for one worker and a stream
\* of files given one by one, every file extracted and flushed; the rows
\* have their ids in stream order
PassInit ==
    /\ numWorkers = 1
    /\ stream \in InsertOrders
    /\ nextIdx = Len(stream) + 1
    /\ pcMain = "dups"
    /\ loopI = 1
    /\ activeWorkerCount = 0
    /\ task = [k \in 1..Len(stream) |-> "done"]
    /\ processedCount = Len(stream)
    /\ imageInsertBuffer = <<>>
    /\ flushPromise = "null"
    /\ flushPc = "idle"
    /\ currentBatch = <<>>
    /\ flushPos = 0
    /\ txSnapshot = <<>>
    /\ intervalActive = FALSE
    /\ resolved = TRUE
    /\ images = {NewRow(i, stream[i]) : i \in 1..Len(stream)}
    /\ nextId = Len(stream) + 1
    /\ onDisk = SeqToSet(stream)
    /\ recycleDir = [n \in RecycleNames |-> NoFile]
    /\ flushedLost = {}
    /\ sortOption = SortOff
    /\ sortedContent = NoContent
    /\ GoIdle

PassNext ==
    \/ FindDuplicates
    \/ FindSimilarImages
    \/ \E p \in AllPaths : Recycle(p)

PassSpec == PassInit /\ [][PassNext]_vars

\* ------------------------------------------ the passes run again on a store
\* the files of these runs: three copies of one picture and a chain of
\* similar pictures
RerunFiles == {"d1/a.jpg", "d2/a.jpg", "e9/a.jpg", "d1/b.jpg", "e1/c.jpg"}

RerunInit == PassInit /\ SeqToSet(stream) \subseteq RerunFiles

\* main.ts:65-66: a flush inserts the row of a further file after the passes
\* have run
InsertLater(p) ==
    /\ pcMain = "serving"
    /\ nextId <= MaxRows
    /\ p \notin SeqToSet(stream)
    /\ p \notin onDisk
    /\ \A n \in RecycleNames : recycleDir[n] # p
    /\ \A r \in images : r.file_path # p
    /\ images' = InsertOrIgnore(images, nextId, p)
    /\ nextId' = nextId + 1
    /\ onDisk' = onDisk \cup {p}
    /\ UNCHANGED <<numWorkers, stream, pcMain, nextIdx, loopI,
                   activeWorkerCount, task, processedCount, intervalActive,
                   resolved, flushVars, recycleDir, flushedLost, sortVars, goVars>>

\* main.ts:236-271: findDuplicates called again on the store as it is now
\* (main calls it once; this is the call the claims on re-running are about)
FindDuplicatesAgain ==
    /\ pcMain = "serving"
    /\ images' = MarkDuplicates(images)
    /\ \E autoRecycleDuplicates \in BOOLEAN :
          IF autoRecycleDuplicates
          THEN /\ onDisk' = onDisk \ {r.file_path : r \in MovedToRecycle(images, onDisk)}
               /\ recycleDir' = RecycleDirAfterMoves(images, onDisk, recycleDir)
          ELSE UNCHANGED diskVars
    /\ UNCHANGED <<numWorkers, stream, pcMain, nextIdx, loopI,
                   activeWorkerCount, task, processedCount, intervalActive,
                   resolved, flushVars, nextId, flushedLost, sortVars, goVars>>

\* main.ts:273-320: findSimilarImages called again on the store as it is now
FindSimilarImagesAgain ==
    /\ pcMain = "serving"
    /\ images' = StoreSimilar(images)
    /\ UNCHANGED <<numWorkers, stream, pcMain, nextIdx, loopI,
                   activeWorkerCount, task, processedCount, intervalActive,
                   resolved, flushVars, nextId, diskVars, flushedLost, sortVars, goVars>>

RerunNext ==
    \/ FindDuplicates
    \/ FindSimilarImages
    \/ \E p \in AllPaths : Recycle(p)
    \/ \E p \in RerunFiles : InsertLater(p)
    \/ FindDuplicatesAgain
    \/ FindSimilarImagesAgain

RerunSpec == RerunInit /\ [][RerunNext]_vars

\* ------------------------------------------- sortImages (main.ts:322-383)
\* allPaths[0], the root sortImages is given (main.ts:532)
SortRoot == "r"
\* the paths --sort is given in the runs considered
SortDestinations == {"out", "r/sorted"}

\* Number.prototype.toString and String.prototype.padStart
RECURSIVE padStart(_, _, _)
padStart(str, targetLength, padString) ==
    IF Len(str) >= targetLength
    THEN str
    ELSE padStart(padString \o str, targetLength, padString)

\* main.ts:332-343: `${year}${month}${day}${hours}${minutes}${seconds}.${sequence}${ext}`
newFileName(image) ==
    LET createDate == image.create_date
        year    == ToString(createDate[1])
        month   == padStart(ToString(createDate[2]), 2, "0")
        day     == padStart(ToString(createDate[3]), 2, "0")
        hours   == padStart(ToString(createDate[4]), 2, "0")
        minutes == padStart(ToString(createDate[5]), 2, "0")
        seconds == padStart(ToString(createDate[6]), 2, "0")
        sequence == padStart(ToString(image.id), 6, "0")
        ext     == extname(image.file_path)
    IN  year \o month \o day \o hours \o minutes \o seconds \o "." \o sequence \o ext

\* main.ts:346-356: join(targetDir, yearDir, monthDir, newFileName)
newPath(image, targetDir) ==
    targetDir \o "/" \o ToString(image.create_date[1])
              \o "/" \o padStart(ToString(image.create_date[2]), 2, "0")
              \o "/" \o newFileName(image)

\* main.ts:344: destinationPath ? destinationPath : rootPath
targetDir(option) == IF option = SortInPlace THEN SortRoot ELSE option

\* the file whose bytes are at path p
ContentAt(p, content) == IF p \in DOMAIN content THEN content[p] ELSE p

\* fs.copyFile / fs.rename writing the bytes of file `from` to path p
PutContent(content, p, from) ==
    [x \in DOMAIN content \cup {p} |-> IF x = p THEN from ELSE content[x]]
DropContent(content, p) == [x \in DOMAIN content \ {p} |-> content[x]]

\* main.ts:331-377, one round of the loop for a row of the SELECT, on the
\* state st = [rows, disk, content, ok] the rounds before it left.
\* With a destination the file is copied (main.ts:360-362); without, it is
\* renamed, or copied and unlinked (main.ts:369-374), and the row's file_path
\* updated (main.ts:375).  A source that is gone makes copyFile reject, an
\* UPDATE to a file_path another row has violates UNIQUE (database.ts:23):
\* either rejects sortImages, the rounds after it are not run.
SortOne(st, image, option) ==
    LET target == newPath(image, targetDir(option))
        src    == image.file_path
        bytes  == ContentAt(src, st.content)
    IN  IF src \notin st.disk
        THEN [st EXCEPT !.ok = FALSE]
        ELSE IF src = target
        THEN st
        ELSE IF option # SortInPlace
        THEN [st EXCEPT !.disk = @ \cup {target},
                        !.content = PutContent(@, target, bytes)]
        ELSE LET moved == [st EXCEPT
                              !.disk = (@ \ {src}) \cup {target},
                              !.content = PutContent(DropContent(@, src), target, bytes)]
             IN  IF \E o \in st.rows : o.id # image.id /\ o.file_path = target
                 THEN [moved EXCEPT !.ok = FALSE]
                 ELSE [moved EXCEPT !.rows =
                          { IF r.id = image.id
                            THEN [r EXCEPT !.file_path = target]
                            ELSE r : r \in @ }]

\* main.ts:324, 331: the loop over the rows that are not duplicates, in the
\* order of the SELECT (by id)
RECURSIVE SortLoop(_, _, _)
SortLoop(st, todo, option) ==
    IF todo = {} \/ ~st.ok
    THEN st
    ELSE LET image == CHOOSE r \in todo : \A o \in todo : r.id <= o.id
         IN  SortLoop(SortOne(st, image, option), todo \ {image}, option)

SortResult ==
    SortLoop([rows |-> images, disk |-> onDisk, content |-> sortedContent,
              ok |-> TRUE],
             {r \in images : ~r.is_duplicate}, sortOption)

\* main.ts:527-535: sortImages as one step; when it rejects, the rejection
\* leaves main's action and the server is not started
SortImages ==
    /\ pcMain = "sort"
    /\ images' = SortResult.rows
    /\ onDisk' = SortResult.disk
    /\ sortedContent' = SortResult.content
    /\ pcMain' = IF SortResult.ok THEN "serving" ELSE "rejected"
    /\ UNCHANGED <<numWorkers, stream, nextIdx, loopI, activeWorkerCount,
                   task, processedCount, intervalActive, resolved, flushVars,
                   nextId, recycleDir, flushedLost, sortOption, goVars>>

\* main.ts:482-535 under --sort: the store and the files as runProcessing
\* left them, for up to MaxRows of the files of the sorting runs
SortInit ==
    /\ numWorkers = 1
    /\ stream \in UNION { {q \in [1..n -> SortFiles] :
                              \A i \in 1..n : \A j \in 1..n : i # j => q[i] # q[j]}
                          : n \in 1..MaxRows }
    /\ nextIdx = Len(stream) + 1
    /\ pcMain = "dups"
    /\ loopI = 1
    /\ activeWorkerCount = 0
    /\ task = [k \in 1..Len(stream) |-> "done"]
    /\ processedCount = Len(stream)
    /\ imageInsertBuffer = <<>>
    /\ flushPromise = "null"
    /\ flushPc = "idle"
    /\ currentBatch = <<>>
    /\ flushPos = 0
    /\ txSnapshot = <<>>
    /\ intervalActive = FALSE
    /\ resolved = TRUE
    /\ images = {NewRow(i, stream[i]) : i \in 1..Len(stream)}
    /\ nextId = Len(stream) + 1
    /\ onDisk = SeqToSet(stream)
    /\ recycleDir = [n \in RecycleNames |-> NoFile]
    /\ flushedLost = {}
    /\ sortOption \in {SortInPlace} \cup SortDestinations
    /\ sortedContent = NoContent
    /\ GoIdle

SortNext ==
    \/ FindDuplicates
    \/ FindSimilarImages
    \/ SortImages

SortSpec == SortInit /\ [][SortNext]_vars

\* --------------------------- Go: util.RecycleFile (src/go/util/file.go:11-77)
\* the files RecycleFile is called on, and the recycle directory with the
\* files an earlier call can have left in it
GoPaths == {"g/a.jpg", "h/a.jpg"}
GoRecycleDir == "bin"
GoRecycled == {"bin/a.jpg"}

\* filepath.Base
GoBase(p) ==
    CASE p = "g/a.jpg" -> "a.jpg"
      [] p = "h/a.jpg" -> "a.jpg"
      [] p = "bin/a.jpg" -> "a.jpg"

\* filepath.Ext
GoExt(fileName) == CASE fileName = "a.jpg" -> ".jpg"

\* file.go:54: fileName[:len(fileName)-len(ext)]
NameWithoutExt(fileName) == CASE fileName = "a.jpg" -> "a"

\* file.go:59: the counter value the loop gives up at
RecycleCounterLimit == 1000
TooMany == "-"

\* file.go:47-62: the first of <name>, <name>_1, <name>_2, ... that does not
\* exist in the recycle directory
RECURSIVE DestPathFrom(_, _, _, _)
DestPathFrom(files, fileName, destPath, counter) ==
    IF destPath \notin DOMAIN files
    THEN destPath
    ELSE IF counter + 1 > RecycleCounterLimit
    THEN TooMany
    ELSE DestPathFrom(files, fileName,
                      GoRecycleDir \o "/" \o NameWithoutExt(fileName) \o "_"
                          \o ToString(counter) \o GoExt(fileName),
                      counter + 1)

\* file.go:41-44
DestPath(files, filePath) ==
    DestPathFrom(files, GoBase(filePath),
                 GoRecycleDir \o "/" \o GoBase(filePath), 1)

\* a fallback that copies and leaves the original where it is
CopyWithoutRemove(files, src, dst) == PutContent(files, dst, files[src])

\* file.go:67-73: CopyFile(filePath, destPath), then os.Remove(filePath)
MoveByCopy(files, src, dst) ==
    DropContent(PutContent(files, dst, files[src]), src)

\* file.go:65: os.Rename(filePath, destPath)
RenameFile(files, src, dst) ==
    DropContent(PutContent(files, dst, files[src]), src)

\* file.go:29-77: one call of RecycleFile(filePath, recycleDir).  What the
\* file system does is an input: MkdirAll can fail, Rename can fail (another
\* device), CopyFile can fail before or after it has created the
\* destination, Remove can fail.
RecycleFile(filePath) ==
    /\ pcMain = "go"
    /\ Cardinality(DOMAIN goFiles) <= MaxGoFiles
    /\ \E outcome \in {"renamed", "copied", "mkdir fails", "copy fails",
                        "copy breaks off", "remove fails"} :
          LET destPath == DestPath(goFiles, filePath)
          IN  IF filePath \notin DOMAIN goFiles
              THEN /\ recycleCall' = [filePath |-> filePath,
                                      err |-> "file does not exist"]
                   /\ UNCHANGED goFiles
              ELSE IF outcome = "mkdir fails"
              THEN /\ recycleCall' = [filePath |-> filePath,
                                      err |-> "failed to create Recycle directory"]
                   /\ UNCHANGED goFiles
              ELSE IF destPath = TooMany
              THEN /\ recycleCall' = [filePath |-> filePath,
                                      err |-> "too many files with the same name"]
                   /\ UNCHANGED goFiles
              ELSE CASE outcome = "renamed" ->
                          /\ goFiles' = RenameFile(goFiles, filePath, destPath)
                          /\ recycleCall' = [filePath |-> filePath, err |-> "nil"]
                     [] outcome = "copied" ->
                          /\ goFiles' = MoveByCopy(goFiles, filePath, destPath)
                          /\ recycleCall' = [filePath |-> filePath, err |-> "nil"]
                     [] outcome = "copy fails" ->
                          /\ UNCHANGED goFiles
                          /\ recycleCall' = [filePath |-> filePath,
                                             err |-> "failed to move or copy file"]
                     [] outcome = "copy breaks off" ->
                          /\ goFiles' = PutContent(goFiles, destPath, "")
                          /\ recycleCall' = [filePath |-> filePath,
                                             err |-> "failed to move or copy file"]
                     [] outcome = "remove fails" ->
                          /\ goFiles' = PutContent(goFiles, destPath, goFiles[filePath])
                          /\ recycleCall' = [filePath |-> filePath,
                                             err |-> "copied file successfully but failed to remove original"]
    /\ UNCHANGED <<numWorkers, stream, nextIdx, pcMain, loopI,
                   activeWorkerCount, task, processedCount, intervalActive,
                   resolved, flushVars, storeVars, diskVars, flushedLost,
                   sortVars, goDb, goCalls, goRows, goResponse>>

\* the rest of the program's state, at rest while the Go packages are called
OthersIdle ==
    /\ numWorkers = 1
    /\ stream = <<>>
    /\ nextIdx = 1
    /\ loopI = 1
    /\ activeWorkerCount = 0
    /\ task = <<>>
    /\ processedCount = 0
    /\ imageInsertBuffer = <<>>
    /\ flushPromise = "null"
    /\ flushPc = "idle"
    /\ currentBatch = <<>>
    /\ flushPos = 0
    /\ txSnapshot = <<>>
    /\ intervalActive = FALSE
    /\ resolved = FALSE
    /\ images = {}
    /\ nextId = 1
    /\ onDisk = {}
    /\ recycleDir = [n \in RecycleNames |-> NoFile]
    /\ flushedLost = {}
    /\ sortOption = SortOff
    /\ sortedContent = NoContent

\* file_test.go TestRecycleFile: some of the files exist, each with bytes of
\* its own, and the recycle directory holds what earlier calls left
RecycleInit ==
    /\ OthersIdle
    /\ pcMain = "go"
    /\ \E present \in SUBSET (GoPaths \cup GoRecycled) :
          goFiles = [p \in present |-> p]
    /\ recycleCall = NoCall
    /\ goDb = NewDb
    /\ goCalls = [g \in Goroutines |-> [pc |-> "idle", db |-> "-", err |-> "-"]]
    /\ goRows = NoContent
    /\ goResponse = NoResponse

RecycleNext == \E filePath \in GoPaths \cup GoRecycled : RecycleFile(filePath)

RecycleSpec == RecycleInit /\ [][RecycleNext]_vars

\* ------- Go: the earlier server's handleRecycle (src/unnamed/part_002:472-523)
\* part_002:494-495: filepath.Join(recycleBinDir, filepath.Base(req.FilePath))
HandlerDestPath(filePath) == GoRecycleDir \o "/" \o GoBase(filePath)

\* part_002:515: UPDATE images SET is_recycled = TRUE WHERE file_path = ?
SetIsRecycled(rows, filePath) ==
    [p \in DOMAIN rows |-> IF p = filePath THEN TRUE ELSE rows[p]]

\* part_002:473-523: one request with a non-empty filePath.  What the file
\* system and the store do is an input: MkdirAll can fail, Rename can fail,
\* CopyFile can fail before or after it has created the destination, Remove
\* can fail, the UPDATE can fail.  A failed Remove is logged and the handler
\* goes on (part_002:510-512).
handleRecycle(filePath) ==
    /\ pcMain = "go"
    /\ \E outcome \in {"renamed", "copied", "mkdir fails", "copy fails",
                        "copy breaks off", "remove fails"} :
       \E updateFails \in BOOLEAN :
          LET destPath == HandlerDestPath(filePath)
              moving == /\ filePath \in DOMAIN goFiles
                        /\ outcome \in {"renamed", "copied", "remove fails"}
              answer == [filePath |-> filePath, Success |-> moving /\ ~updateFails]
          IN  /\ goResponse' = answer
              /\ goFiles' =
                    IF filePath \notin DOMAIN goFiles
                    THEN goFiles
                    ELSE CASE outcome = "renamed" ->
                                  RenameFile(goFiles, filePath, destPath)
                           [] outcome = "copied" ->
                                  MoveByCopy(goFiles, filePath, destPath)
                           [] outcome = "copy breaks off" ->
                                  PutContent(goFiles, destPath, "")
                           [] outcome = "remove fails" ->
                                  PutContent(goFiles, destPath, goFiles[filePath])
                           [] OTHER -> goFiles
              /\ goRows' = IF moving /\ ~updateFails
                           THEN SetIsRecycled(goRows, filePath)
                           ELSE goRows
    /\ UNCHANGED <<numWorkers, stream, nextIdx, pcMain, loopI,
                   activeWorkerCount, task, processedCount, intervalActive,
                   resolved, flushVars, storeVars, diskVars, flushedLost,
                   sortVars, recycleCall, goDb, goCalls>>

\* the server is up: some of the files exist, each has a row that is not
\* recycled, and the recycle directory holds what earlier requests left
HandlerInit ==
    /\ OthersIdle
    /\ pcMain = "go"
    /\ \E present \in SUBSET (GoPaths \cup GoRecycled) :
          goFiles = [p \in present |-> p]
    /\ recycleCall = NoCall
    /\ goDb = NewDb
    /\ goCalls = [g \in Goroutines |-> [pc |-> "idle", db |-> "-", err |-> "-"]]
    /\ goRows = [p \in GoPaths |-> FALSE]
    /\ goResponse = NoResponse

\* part_002:116: the requests the server takes
HandlerSpec ==
    HandlerInit /\ [][\E filePath \in GoPaths : handleRecycle(filePath)]_vars

\* ---------- Go: database.GetDBInstance, CloseDb (database.go:16-101)
\* goDb.closed: Close has been called on the handle sql.Open returned;
\* goDb.inits: how often the function given to once.Do has run (history)
otherThanDb == <<numWorkers, stream, nextIdx, pcMain, loopI,
                 activeWorkerCount, task, processedCount, intervalActive,
                 resolved, flushVars, storeVars, diskVars, flushedLost,
                 sortVars, goFiles, recycleCall, goRows, goResponse>>

\* database.go:24: a goroutine calls GetDBInstance
GetDBInstanceCall(g) ==
    /\ pcMain = "go"
    /\ goCalls[g].pc = "idle"
    /\ goCalls' = [goCalls EXCEPT ![g].pc = "once"]
    /\ UNCHANGED <<otherThanDb, goDb>>

\* database.go:28-73: what the function given to once.Do leaves, by the
\* step that fails: ioutil.TempFile, sql.Open, the CREATE TABLE, or none
InitDb(db, outcome) ==
    CASE outcome = "TempFile fails" ->
            [db EXCEPT !.initErr = "failed to create temporary database file"]
      [] outcome = "Open fails" ->
            [db EXCEPT !.tempDBFile = "tmp",
                       !.initErr = "failed to open database"]
      [] outcome = "Exec fails" ->
            [db EXCEPT !.tempDBFile = "tmp", !.dbInstance = "db",
                       !.initErr = "failed to create images table"]
      [] outcome = "ok" ->
            [db EXCEPT !.tempDBFile = "tmp", !.dbInstance = "db"]

\* database.go:25-74: once.Do; the first caller runs the function, a caller
\* that comes while it runs waits for it, a later caller goes on at once
OnceDo(g) ==
    /\ pcMain = "go"
    /\ goCalls[g].pc = "once"
    /\ IF goDb.once = "new"
       THEN \E outcome \in {"TempFile fails", "Open fails", "Exec fails", "ok"} :
               goDb' = [InitDb(goDb, outcome) EXCEPT !.once = "done",
                                                    !.inits = @ + 1]
       ELSE UNCHANGED goDb
    /\ goCalls' = [goCalls EXCEPT ![g].pc = "return"]
    /\ UNCHANGED otherThanDb

\* database.go:76-79
GetDBInstanceReturn(g) ==
    /\ pcMain = "go"
    /\ goCalls[g].pc = "return"
    /\ goCalls' = [goCalls EXCEPT ![g] =
          IF goDb.initErr # "nil"
          THEN [pc |-> "idle", db |-> "nil", err |-> goDb.initErr]
          ELSE [pc |-> "idle", db |-> goDb.dbInstance, err |-> "nil"]]
    /\ UNCHANGED <<otherThanDb, goDb>>

\* database.go:83-87: CloseDb is called; with an instance, dbInstance.Close()
\* closes the handle, or fails and CloseDb returns the error
CloseDbCall(g) ==
    /\ pcMain = "go"
    /\ goCalls[g].pc = "idle"
    /\ IF goDb.dbInstance # "nil"
       THEN \/ /\ goDb' = [goDb EXCEPT !.closed = TRUE]
               /\ goCalls' = [goCalls EXCEPT ![g].pc = "clear"]
            \/ UNCHANGED <<goDb, goCalls>>
       ELSE /\ goCalls' = [goCalls EXCEPT ![g].pc = "remove"]
            /\ UNCHANGED goDb
    /\ UNCHANGED otherThanDb

\* database.go:88: dbInstance = nil
CloseDbClear(g) ==
    /\ pcMain = "go"
    /\ goCalls[g].pc = "clear"
    /\ goDb' = [goDb EXCEPT !.dbInstance = "nil"]
    /\ goCalls' = [goCalls EXCEPT ![g].pc = "remove"]
    /\ UNCHANGED otherThanDb

\* database.go:92-100: the temporary file is removed (or not) and its name
\* cleared
CloseDbRemove(g) ==
    /\ pcMain = "go"
    /\ goCalls[g].pc = "remove"
    /\ goDb' = [goDb EXCEPT !.tempDBFile = ""]
    /\ goCalls' = [goCalls EXCEPT ![g].pc = "idle"]
    /\ UNCHANGED otherThanDb

\* main.go:18-28 and the request handlers (server.go:123, 264, 446, 470):
\* the package as it is loaded, goroutines calling it
DbInit ==
    /\ OthersIdle
    /\ pcMain = "go"
    /\ goFiles = NoContent
    /\ recycleCall = NoCall
    /\ goDb = NewDb
    /\ goCalls = [g \in Goroutines |-> [pc |-> "idle", db |-> "-", err |-> "-"]]
    /\ goRows = NoContent
    /\ goResponse = NoResponse

DbNext ==
    \E g \in Goroutines :
        \/ GetDBInstanceCall(g)
        \/ OnceDo(g)
        \/ GetDBInstanceReturn(g)
        \/ CloseDbCall(g)
        \/ CloseDbClear(g)
        \/ CloseDbRemove(g)

DbSpec == DbInit /\ [][DbNext]_vars

\* ----------------- the content hash of ingested files (worker.ts:78-118)
\* worker.ts:78-120 and main.ts:60-84 for the next file of the stream, one
\* worker, every result flushed: the row with the worker's md5 is inserted
ProcessAndInsert ==
    /\ pcMain = "hash"
    /\ nextIdx <= Len(stream)
    /\ images' = InsertOrIgnore(images, nextId, stream[nextIdx])
    /\ nextId' = nextId + 1
    /\ nextIdx' = nextIdx + 1
    /\ processedCount' = processedCount + 1
    /\ pcMain' = IF nextIdx = Len(stream) THEN "dups" ELSE "hash"
    /\ UNCHANGED <<numWorkers, stream, loopI, activeWorkerCount, task,
                   intervalActive, resolved, flushVars, diskVars, flushedLost,
                   sortVars, goVars>>

\* main.ts:445-482: up to MaxRows of the files of the hashing runs are found
HashInit ==
    /\ numWorkers = 1
    /\ stream \in UNION { {q \in [1..n -> HashFiles] :
                              \A i \in 1..n : \A j \in 1..n : i # j => q[i] # q[j]}
                          : n \in 1..MaxRows }
    /\ nextIdx = 1
    /\ pcMain = "hash"
    /\ loopI = 1
    /\ activeWorkerCount = 0
    /\ task = [k \in 1..Len(stream) |-> "done"]
    /\ processedCount = 0
    /\ imageInsertBuffer = <<>>
    /\ flushPromise = "null"
    /\ flushPc = "idle"
    /\ currentBatch = <<>>
    /\ flushPos = 0
    /\ txSnapshot = <<>>
    /\ intervalActive = FALSE
    /\ resolved = TRUE
    /\ images = {}
    /\ nextId = 1
    /\ onDisk = SeqToSet(stream)
    /\ recycleDir = [n \in RecycleNames |-> NoFile]
    /\ flushedLost = {}
    /\ sortOption = SortOff
    /\ sortedContent = NoContent
    /\ GoIdle

HashNext ==
    \/ ProcessAndInsert
    \/ FindDuplicates
    \/ FindSimilarImages

HashSpec == HashInit /\ [][HashNext]_vars

\* --------------------------- a run over more results than a batch holds
\* the streams of BATCH_SIZE + 1 files that all get a result (none below the
\* size floor), in listing order
BurstStreams ==
    { s \in [1..(BATCH_SIZE + 1) -> {p \in Paths : ~IsSmall(p)}] :
        \A i \in DOMAIN s : \A j \in DOMAIN s :
            i < j => PathOrd(s[i]) <= PathOrd(s[j]) }

\* main.ts:37-48,100-102 and 445-480: main before runProcessing, for a
\* stream out of `streams`
RunInit(streams) ==
    /\ numWorkers \in 1..MaxWorkers
    /\ stream \in streams
    /\ nextIdx = 1
    /\ pcMain = "scan"
    /\ loopI = 0
    /\ activeWorkerCount = 0
    /\ task = [k \in 1..Len(stream) |-> "pending"]
    /\ processedCount = 0
    /\ imageInsertBuffer = <<>>
    /\ flushPromise = "null"
    /\ flushPc = "idle"
    /\ currentBatch = <<>>
    /\ flushPos = 0
    /\ txSnapshot = <<>>
    /\ intervalActive = FALSE
    /\ resolved = FALSE
    /\ images = {}
    /\ nextId = 1
    /\ onDisk = SeqToSet(stream)
    /\ recycleDir = [n \in RecycleNames |-> NoFile]
    /\ flushedLost = {}
    /\ sortOption = SortOff
    /\ sortedContent = NoContent
    /\ GoIdle

\* the steps of runProcessing (main.ts:42-207) up to its return
BurstNext ==
    \/ MainScan
    \/ DispatchLoop
    \/ \E k \in Positions : ExtractionError(k)
    \/ \E k \in Positions : ExtractionResult(k)
    \/ \E k \in Positions : StatFails(k)
    \/ \E k \in Positions : PushResult(k)
    \/ \E k \in Positions : HandlerTail(k)
    \/ \E k \in Positions : WorkerError(k)
    \/ TimerFlush
    \/ FlushBegin
    \/ FlushBeginFails
    \/ FlushInsert
    \/ FlushStatementFails
    \/ FlushCommit
    \/ FlushRollback
    \/ FlushRollbackFails
    \/ MainAfterProcessing

BurstSpec == RunInit(BurstStreams) /\ [][BurstNext]_vars

\* ------------------------------- runs that fill the recycle directory
\* the streams over these files, in listing order
BinStreams ==
    { s \in UNION { [1..n -> BinFiles] : n \in 0..MaxFiles } :
        \A i \in DOMAIN s : \A j \in DOMAIN s :
            i < j => PathOrd(s[i]) <= PathOrd(s[j]) }

BinSpec == RunInit(BinStreams) /\ [][Next]_vars

\* ------------------------------------------------------------- fairness
\* worker.ts:126-133 and main.ts:109,179: a worker that was posted a path
\* reports a message or an error
WorkerReports(k) ==
    /\ k \in Positions
    /\ \/ SmallFileMoved(k)
       \/ SmallFileMoveFails(k)
       \/ ExtractionError(k)
       \/ ExtractionResult(k)
       \/ WorkerError(k)

\* main.ts:123-137: fs.stat and the thumbnail settle
StatReturns(k) == k \in Positions /\ (PushResult(k) \/ StatFails(k))

\* main.ts:167: the 1 ms timer fires
DelayElapses(k) == k \in Positions /\ HandlerTail(k)

\* main.ts:62-84: the store answers the statement in progress
StatementReturns ==
    \/ FlushBegin
    \/ FlushBeginFails
    \/ FlushInsert
    \/ FlushStatementFails
    \/ FlushCommit
    \/ FlushRollback
    \/ FlushRollbackFails

\* the event loop runs every ready callback, workers report, timers fire and
\* the store answers
FairSpec ==
    /\ Spec
    /\ WF_vars(MainScan)
    /\ WF_vars(DispatchLoop)
    /\ \A k \in 1..(MaxFiles + 1) : WF_vars(WorkerReports(k))
    /\ \A k \in 1..(MaxFiles + 1) : WF_vars(StatReturns(k))
    /\ \A k \in 1..(MaxFiles + 1) : WF_vars(DelayElapses(k))
    /\ WF_vars(TimerFlush)
    /\ WF_vars(StatementReturns)
    /\ WF_vars(MainAfterProcessing)
    /\ WF_vars(FindDuplicates)
    /\ WF_vars(FindSimilarImages)

\* ======================================================== properties

\* C1: when findDuplicates has run over a store in which two or more rows
\* share one md5, exactly one row of the group has is_duplicate false, it is
\* the row with the least id of the group, and every other row of the group
\* has is_duplicate true and duplicate_of equal to that least id.
C1_ResolverMarksGroup ==
    [][ (pcMain = "dups" /\ pcMain' = "similar") =>
          \A a \in images' : \A b \in images' :
              (a.md5 = b.md5 /\ a.id # b.id) =>
                  LET g == {r \in images' : r.md5 = a.md5}
                      m == CHOOSE i \in {r.id : r \in g} : \A r \in g : i <= r.id
                  IN  /\ Cardinality({r \in g : ~r.is_duplicate}) = 1
                      /\ \A r \in g :
                            IF r.id = m
                            THEN ~r.is_duplicate
                            ELSE r.is_duplicate /\ r.duplicate_of = m ]_vars

\* the resolver has run over two rows with the same md5
C1_Witness ==
    /\ pcMain = "similar"
    /\ \E a \in images : \E b \in images :
          /\ a.md5 = b.md5
          /\ a.id < b.id
          /\ ~a.is_duplicate
          /\ b.is_duplicate
          /\ b.duplicate_of = a.id

\* C2: in every reachable state each row with is_duplicate true has a
\* duplicate_of that names a row present in the store whose own is_duplicate
\* is false; it never names another duplicate, the row itself or a removed row.
C2_DuplicateNamesCanonical ==
    \A r \in images :
        r.is_duplicate =>
            \E m \in images :
                /\ m.id = r.duplicate_of
                /\ m.id # r.id
                /\ ~m.is_duplicate

\* C3: an INSERT of a path that is already in the store changes nothing (no
\* row added, no id consumed, the existing row as it was), and the store
\* never holds two rows with the same file_path.
C3_InsertIfAbsent ==
    [][ /\ ( /\ flushPc = "insert"
             /\ (flushPc' = "commit" \/ flushPos' = flushPos + 1)
             /\ \E r \in images : r.file_path = stream[currentBatch[flushPos]] )
           => (images' = images /\ nextId' = nextId)
        /\ \A a \in images' : \A b \in images' :
              a.file_path = b.file_path => a = b ]_vars

\* a batch that held the same path twice has run both of its inserts and the
\* store holds one row
C3_Witness ==
    /\ flushPc = "commit"
    /\ Len(currentBatch) = 2
    /\ stream[currentBatch[1]] = stream[currentBatch[2]]
    /\ Cardinality(images) = 1

C5_ResolvedMeansFlushed ==
    resolved =>
        /\ imageInsertBuffer = <<>>
        /\ flushPc = "idle"
        /\ currentBatch = <<>>

\* C6: activeWorkerCount is never negative and never above numWorkers,
\* whatever the interleaving of completions with the dispatch loop.
C6_ActiveWithinWorkers ==
    /\ activeWorkerCount >= 0
    /\ activeWorkerCount <= numWorkers

\* a handler has admitted a path and the pool is full
C6_Witness ==
    /\ activeWorkerCount = numWorkers
    /\ \E k \in Positions : task[k] = "done"
    /\ \E k \in Positions : task[k] = "running"

\* C7: once the dispatch loop is over and while the stream still has paths,
\* every worker slot holds a file in flight or a handler on its way to admit
\* the next path: each completion admits one further path.
C7_OneInOneOut ==
    (pcMain = "processing" /\ loopI = LoopLimit /\ nextIdx <= Len(stream)) =>
        Cardinality({k \in Positions : task[k] \in {"running", "stat", "delay"}})
            = numWorkers

\* C8: when a flush ends in a rollback the store is what it was at BEGIN
\* (none of the batch's rows, the earlier rows as they were), and a result of
\* a failed batch is never again in the buffer or in a batch.
C8_FlushAllOrNothing ==
    [][ /\ (flushPc = "rollback" /\ flushPc' # "rollback") =>
              /\ images' = txSnapshot[1]
              /\ nextId' = txSnapshot[2]
              /\ \A k \in SeqToSet(currentBatch) :
                    (\E r \in images' : r.file_path = stream[k])
                        => (\E r \in txSnapshot[1] : r.file_path = stream[k])
              /\ SeqToSet(currentBatch) \subseteq flushedLost'
        /\ flushedLost' \cap (SeqToSet(imageInsertBuffer') \cup SeqToSet(currentBatch'))
              = {} ]_vars

\* a batch was rolled back after an earlier one had committed
C8_Witness ==
    /\ flushPc = "idle"
    /\ flushPromise = "null"
    /\ images # {}
    /\ \E k \in flushedLost : \A r \in images : r.file_path # stream[k]

\* C9: a store failure during a flush neither leaves flushPromise set once
\* the flush is over nor makes the final flush throw.
C9_FlushFailureContained ==
    /\ flushPc = "idle" => flushPromise = "null"
    /\ \A k \in Positions : task[k] # "aborted"

\* C10: main gets past runProcessing for every input stream, the empty one
\* included.
C10_RunResolves == <>(pcMain \in {"dups", "similar", "serving"})

\* C11: a failure confined to one file frees its worker slot: the count of
\* active workers is the number of files that are with a worker or in the
\* coordinator's post-extraction step, so that the other paths and the
\* return of the run are unaffected.
C11_FailureFreesSlot ==
    activeWorkerCount
        = Cardinality({k \in Positions : task[k] \in {"running", "stat"}})

\* C12: extraction, final flush, duplicate resolution and similarity pass
\* follow one another strictly: once findDuplicates has started no step adds
\* a row to the store, and similar_images is written only by the step that
\* follows findDuplicates.
C12_PhasesInSequence ==
    [][ /\ pcMain \in {"similar", "serving"} =>
              {r.file_path : r \in images'} \subseteq {r.file_path : r \in images}
        /\ (\E r \in images' : r.similar_images # NoList
                                 /\ \A x \in images : x.id = r.id => x.similar_images = NoList)
              => pcMain = "similar" ]_vars

\* server.ts:865-867: the ids a row's similar_images holds
SimilarGroup(r) ==
    IF r.similar_images = NoList THEN {} ELSE SeqToSet(r.similar_images)

\* C13: when the similarity pass has run, for every row R and every id X in
\* R's similar_images, the row X holds R's id in its own similar_images.
C13_SimilarIsSymmetric ==
    [][ (pcMain = "similar" /\ pcMain' = "serving") =>
          \A r \in images' : \A x \in SimilarGroup(r) :
              \E o \in images' : o.id = x /\ r.id \in SimilarGroup(o) ]_vars

\* the edges the pass has recorded, in both directions
StoredEdges(rows) ==
    UNION { UNION { {<<r.id, x>>, <<x, r.id>>} : x \in SimilarGroup(r) } : r \in rows }

\* server.ts:879-898: the ids reachable from the ids of S over the edges E
RECURSIVE Component(_, _)
Component(S, E) ==
    LET T == S \cup {e[2] : e \in {d \in E : d[1] \in S}}
    IN  IF T = S THEN S ELSE Component(T, E)

\* C14: when the similarity pass has found edges A~B and B~C, the
\* similar_images of A, of B and of C is each the ascending list of all other
\* rows of their connected component, whether or not A~C is an edge.
C14_GroupIsComponent ==
    [][ (pcMain = "similar" /\ pcMain' = "serving") =>
          LET E == StoredEdges(images')
          IN  \A a \in images' : \A b \in images' : \A c \in images' :
                  (a.id # c.id /\ <<a.id, b.id>> \in E /\ <<b.id, c.id>> \in E) =>
                      \A m \in {a, b, c} :
                          /\ SimilarGroup(m) = Component({m.id}, E) \ {m.id}
                          /\ \A i \in DOMAIN m.similar_images :
                                \A j \in DOMAIN m.similar_images :
                                    i < j => m.similar_images[i] < m.similar_images[j] ]_vars

\* C15: for two rows with phash and dimensions whose aspect ratios and areas
\* are within the tolerances, the pass records the edge (the later row's id in
\* the earlier row's list) if and only if their hashes differ in at most 3
\* binary digits; no pair further apart than 3 is ever recorded.
C15_EdgeIffWithinThreshold ==
    [][ (pcMain = "similar" /\ pcMain' = "serving") =>
          \A a \in images' : \A b \in images' :
              (a.id < b.id /\ a.phash # <<>> /\ b.phash # <<>>) =>
                  LET dist == hamming(hexToBinary(a.phash), hexToBinary(b.phash))
                      x == a.image_width * b.image_height
                      y == b.image_width * a.image_height
                      area1 == a.image_width * a.image_height
                      area2 == b.image_width * b.image_height
                      within == /\ 10 * (Max(x, y) - Min(x, y)) < Max(x, y)
                                /\ 5 * (Max(area1, area2) - Min(area1, area2))
                                      <= Max(area1, area2)
                  IN  /\ b.id \in SimilarGroup(a) => dist <= 3
                      /\ within => (b.id \in SimilarGroup(a) <=> dist <= 3) ]_vars

\* the pass has run over a row with one row at distance 3, which is in its
\* list, and one of the same dimensions at distance 4, which is not
C15_Witness ==
    /\ pcMain = "serving"
    /\ \E a \in images : \E b \in images : \E d \in images :
          /\ a.id < b.id /\ a.id < d.id
          /\ a.image_width = b.image_width /\ a.image_height = b.image_height
          /\ a.image_width = d.image_width /\ a.image_height = d.image_height
          /\ hamming(hexToBinary(a.phash), hexToBinary(b.phash)) = 3
          /\ hamming(hexToBinary(a.phash), hexToBinary(d.phash)) = 4
          /\ b.id \in SimilarGroup(a)
          /\ d.id \notin SimilarGroup(a)

\* C16: a pair of rows whose aspect ratios differ by more than 10% of the
\* larger one, or whose areas differ by more than 20%, is never recorded as
\* an edge whatever their hashes are; a pair within or exactly on both
\* tolerances is compared by hash, so that it is recorded exactly when the
\* hashes differ in at most 3 binary digits.
C16_TolerancesInclusive ==
    [][ (pcMain = "similar" /\ pcMain' = "serving") =>
          \A a \in images' : \A b \in images' :
              (a.id < b.id /\ a.phash # <<>> /\ b.phash # <<>>) =>
                  LET dist == hamming(hexToBinary(a.phash), hexToBinary(b.phash))
                      x == a.image_width * b.image_height
                      y == b.image_width * a.image_height
                      area1 == a.image_width * a.image_height
                      area2 == b.image_width * b.image_height
                      beyond == \/ 10 * (Max(x, y) - Min(x, y)) > Max(x, y)
                                \/ 5 * (Max(area1, area2) - Min(area1, area2))
                                      > Max(area1, area2)
                  IN  IF beyond
                      THEN b.id \notin SimilarGroup(a)
                      ELSE b.id \in SimilarGroup(a) <=> dist <= 3 ]_vars

\* C17: a recycle request for a canonical row that has duplicates makes the
\* remaining duplicate of least id canonical: after the request that row has
\* is_duplicate false and duplicate_of NULL.
C17_RecyclePromotes ==
    [][ (pcMain = "serving" /\ onDisk' # onDisk) =>
          \A c \in images :
              LET dups == {r \in images : r.is_duplicate /\ r.duplicate_of = c.id}
              IN  ( /\ c.file_path \in onDisk \ onDisk'
                    /\ ~c.is_duplicate
                    /\ dups # {} ) =>
                      \E n \in images' :
                          /\ n.id \in {r.id : r \in dups}
                          /\ \A r \in dups : n.id <= r.id
                          /\ ~n.is_duplicate
                          /\ n.duplicate_of = NULL ]_vars

\* C18: when a recycle request has removed a row and exactly one row with
\* its md5 is left, that row has is_duplicate false and duplicate_of NULL,
\* whether the removed row was the canonical one or a duplicate.
C18_SoleRemainderCanonical ==
    [][ (pcMain = "serving" /\ onDisk' # onDisk) =>
          \A d \in images : \A r \in images' :
              ( /\ d.file_path \in onDisk \ onDisk'
                /\ r.md5 = d.md5
                /\ Cardinality({x \in images' : x.md5 = d.md5}) = 1 ) =>
                  (~r.is_duplicate /\ r.duplicate_of = NULL) ]_vars

\* main.ts:212-228: a row whose file moveFileToRecycle has moved into the
\* recycle directory, the row it means to mark as recycled
Recycled(r, disk, dir) ==
    r.file_path \notin disk /\ \E n \in RecycleNames : dir[n] = r.file_path

\* C19: a later run of findDuplicates never takes a recycled row as the
\* master of a group: no row it marks is made a duplicate of a recycled row.
C19_RecycledNeverMaster ==
    [][ (pcMain = "serving") =>
          \A r \in images : \A n \in images' :
              ( /\ n.id = r.id
                /\ n.is_duplicate
                /\ (~r.is_duplicate \/ r.duplicate_of # n.duplicate_of) ) =>
                  ~\E m \in images : /\ m.id = n.duplicate_of
                                     /\ Recycled(m, onDisk, recycleDir) ]_vars

\* C20: the similarity pass gives a list to, and puts into a list, only rows
\* that are not recycled and have a non-empty phash and a width and a height
\* that are neither NULL nor 0.
C20_SimilarOnlyLiveRows ==
    [][ (pcMain = "similar" /\ pcMain' = "serving") =>
          \A r \in images' :
              ( \/ r.similar_images # NoList
                \/ \E o \in images' : r.id \in SimilarGroup(o) ) =>
                  /\ ~Recycled(r, onDisk, recycleDir)
                  /\ r.phash # <<>>
                  /\ r.image_width # 0
                  /\ r.image_height # 0 ]_vars

\* ---------------- GET /api/images and GET /api/stats (server.ts:697-959)
\* server.ts:941-945: type=all, every row (over all pages)
ViewAll(rows) == rows

\* server.ts:935-939: type=unique
ViewUnique(rows) ==
    {r \in rows : ~r.is_duplicate /\ r.similar_images = NoList}

\* server.ts:819-834 and 702-715: one group per master that a duplicate row
\* names and that is in the store, the master and its duplicates
DuplicateGroups(rows) ==
    { {m} \cup {d \in rows : d.is_duplicate /\ d.duplicate_of # NULL
                                /\ d.duplicate_of = m.id} :
        m \in {x \in rows : \E d \in rows : d.is_duplicate /\ d.duplicate_of # NULL
                                              /\ d.duplicate_of = x.id} }

\* server.ts:864-877: the rows `todo` are taken in id order; a row with a
\* list replaces what the map holds under its id by its list, then adds its
\* id under every id of the list.  The map is a set of <<key, neighbour>>
RECURSIVE SimilarRelationships(_, _)
SimilarRelationships(todo, rel) ==
    IF todo = {}
    THEN rel
    ELSE LET img == CHOOSE r \in todo : \A x \in todo : r.id <= x.id
         IN  IF img.similar_images = NoList
             THEN SimilarRelationships(todo \ {img}, rel)
             ELSE SimilarRelationships(todo \ {img},
                      {e \in rel : e[1] # img.id}
                          \cup {<<img.id, x>> : x \in SimilarGroup(img)}
                          \cup {<<x, img.id>> : x \in SimilarGroup(img)})

\* server.ts:879-905: the keys in ascending order; from a key not yet
\* visited the search collects what it reaches without passing through a
\* visited id; a group of more than one id is kept
RECURSIVE SimilarIdGroups(_, _, _, _)
SimilarIdGroups(keys, rel, visited, groups) ==
    IF keys = {}
    THEN groups
    ELSE LET id == CHOOSE k \in keys : \A x \in keys : k <= x
         IN  IF id \in visited
             THEN SimilarIdGroups(keys \ {id}, rel, visited, groups)
             ELSE LET group == Component({id}, {e \in rel : e[2] \notin visited})
                  IN  SimilarIdGroups(keys \ {id}, rel, visited \cup group,
                          IF Cardinality(group) > 1
                          THEN groups \cup {group}
                          ELSE groups)

\* server.ts:859-909 and 717-757: type=similar, the rows of each group that
\* are in the store
SimilarGroups(rows) ==
    LET rel == SimilarRelationships(rows, {})
    IN  { {r \in rows : r.id \in g} :
            g \in SimilarIdGroups({e[1] : e \in rel}, rel, {}, {}) }

\* server.ts:760-765: the rows counted as unique by the statistics
StatsUnique(rows) ==
    {r \in rows : ~r.is_duplicate /\ r \notin UNION SimilarGroups(rows)}

\* C21: while the server runs, a row whose file has been moved into the
\* recycle directory (by a recycle request or by findDuplicates under
\* --auto-recycle-duplicates) is in none of the views all, duplicates,
\* similar, unique and is not counted by the statistics.
C21_RecycledNotListed ==
    pcMain = "serving" =>
        \A r \in images :
            Recycled(r, onDisk, recycleDir) =>
                /\ r \notin ViewAll(images)
                /\ r \notin ViewUnique(images)
                /\ r \notin UNION DuplicateGroups(images)
                /\ r \notin UNION SimilarGroups(images)
                /\ r \notin StatsUnique(images)

\* C22: the rows of the first pass are those with an id up to Len(stream).
\* In every step after that pass (later inserts, recycle requests, further
\* passes) such a row that is canonical stays canonical, and such a row that
\* is a duplicate of a row still in the store stays a duplicate of that row.
C22_StableUnderAppend ==
    [][ (pcMain \in {"similar", "serving"}) =>
          \A r \in images : \A n \in images' :
              (r.id <= Len(stream) /\ n.id = r.id) =>
                  ( /\ (~r.is_duplicate) => (~n.is_duplicate)
                    /\ (r.is_duplicate /\ (\E m \in images : m.id = r.duplicate_of))
                          => (n.is_duplicate /\ n.duplicate_of = r.duplicate_of) ) ]_vars

\* a pass has run again after a copy was inserted: the copy is a duplicate of
\* the canonical row of the first pass, and so is still the first duplicate
C22_Witness ==
    /\ pcMain = "serving"
    /\ \E c \in images : \E d \in images : \E n \in images :
          /\ c.id < d.id /\ d.id <= Len(stream) /\ n.id > Len(stream)
          /\ ~c.is_duplicate
          /\ d.is_duplicate /\ d.duplicate_of = c.id
          /\ n.is_duplicate /\ n.duplicate_of = c.id

\* main.ts:244-265 cut short: only the rows with an id in ids have had their
\* UPDATE when the pass stops
PartialMarks(rows, ids) ==
    { IF r \in MarkedRows(rows) /\ r.id \in ids
      THEN [r EXCEPT !.is_duplicate = TRUE,
                     !.duplicate_of = MasterImageId(ImagesWithSameMd5(rows, r.md5))]
      ELSE r : r \in rows }

\* main.ts:280-317 cut short: only the rows with an id in ids (the loop
\* takes the rows in id order) have had their list written when the pass
\* stops
PartialSimilar(rows, ids) ==
    { IF Eligible(r) /\ SimilarOf(rows, r) # {} /\ r.id \in ids
      THEN [r EXCEPT !.similar_images = SortedIds(SimilarOf(rows, r))]
      ELSE r : r \in rows }

\* C23: running findDuplicates, or findSimilarImages, on the store a run of
\* it left changes no row, and a run on the store an interrupted run left
\* gives the store one complete run gives.
C23_PassesIdempotent ==
    pcMain = "serving" =>
        /\ MarkDuplicates(MarkDuplicates(images)) = MarkDuplicates(images)
        /\ StoreSimilar(StoreSimilar(images)) = StoreSimilar(images)
        /\ \A ids \in SUBSET {r.id : r \in MarkedRows(images)} :
              MarkDuplicates(PartialMarks(images, ids)) = MarkDuplicates(images)
        /\ \A k \in 0..nextId :
              StoreSimilar(PartialSimilar(images, 1..k)) = StoreSimilar(images)

\* both passes have run over a group of three copies: two rows are marked
\* and a list is stored
C23_Witness ==
    /\ pcMain = "serving"
    /\ Cardinality(MarkedRows(images)) >= 2
    /\ \A r \in MarkedRows(images) : r.is_duplicate
    /\ \E r \in images : r.similar_images # NoList
    /\ images = StoreSimilar(images)

\* main.ts:228 with database.ts:20-39: the statement UPDATE images SET
\* is_recycled = TRUE names a column the images table is created without, so
\* db.run rejects for every row
UpdateIsRecycledThrows == TRUE

\* main.ts:226-233: the rows moveFileToRecycle leaves flagged, those it has
\* moved and whose UPDATE went through
FlaggedRecycled(rows, disk) ==
    {r \in MovedToRecycle(rows, disk) : ~UpdateIsRecycledThrows}

\* main.ts:256-260, 268-270: recycledCount, one for every call of
\* moveFileToRecycle that returned true
RecycledCount(rows, disk) == Cardinality(FlaggedRecycled(rows, disk))

\* C24: after findDuplicates under --auto-recycle-duplicates every marked row
\* whose file was moved into the recycle directory is flagged as recycled, the
\* reported recycledCount is the number of files moved, and every marked row
\* is marked whatever happened to the others.
C24_AutoRecycleFlagsMoved ==
    [][ (pcMain = "dups" /\ pcMain' = "similar") =>
          /\ \A r \in images :
                (r.file_path \in onDisk \ onDisk') =>
                    r \in FlaggedRecycled(images, onDisk)
          /\ RecycledCount(images, onDisk) = Cardinality(onDisk \ onDisk')
          /\ \A r \in MarkedRows(images) : \E n \in images' :
                n.id = r.id /\ n.is_duplicate ]_vars

\* C25: sortImages derives different target paths for different rows, also
\* for rows of one second, one name and one extension, and its run replaces
\* the bytes of no file that was there before it.
C25_SortNeverOverwrites ==
    [][ (pcMain = "sort") =>
          /\ \A r1 \in images : \A r2 \in images :
                (r1.id # r2.id) =>
                    newPath(r1, targetDir(sortOption)) # newPath(r2, targetDir(sortOption))
          /\ \A p \in onDisk \cap onDisk' :
                ContentAt(p, sortedContent') = ContentAt(p, sortedContent) ]_vars

\* C26: with a destination path sortImages copies: every file that was there
\* is still there with its bytes and no row's file_path changes; without one
\* it moves: every sorted row's file_path is its target path and names a file
\* that exists.
C26_SortCopiesOrMoves ==
    [][ (pcMain = "sort") =>
          /\ (sortOption \in SortDestinations) =>
                /\ onDisk \subseteq onDisk'
                /\ \A p \in onDisk :
                      ContentAt(p, sortedContent') = ContentAt(p, sortedContent)
                /\ images' = images
          /\ (sortOption = SortInPlace) =>
                \A o \in images : \A r \in images' :
                    (r.id = o.id /\ ~o.is_duplicate) =>
                        /\ r.file_path = newPath(o, SortRoot)
                        /\ r.file_path \in onDisk' ]_vars

\* the names RecycleFile can give a file in the recycle directory
InRecycleDir(files) ==
    {d \in DOMAIN files :
        \E p \in GoPaths \cup GoRecycled : \E k \in 0..(Cardinality(DOMAIN files) + 1) :
            d = (IF k = 0
                 THEN GoRecycleDir \o "/" \o GoBase(p)
                 ELSE GoRecycleDir \o "/" \o NameWithoutExt(GoBase(p)) \o "_"
                          \o ToString(k) \o GoExt(GoBase(p)))}

\* C27: after a call of RecycleFile that returned nil the file is not at
\* filePath and its bytes are at a path in the recycle directory, at
\* <recycleDir>/<base name> when nothing was there, and every file that was
\* in the directory is still there; a call on a path where no file is
\* returns an error and leaves every file as it was.
C27_RecycleFileMoves ==
    [][ LET filePath == recycleCall'.filePath
            base == GoRecycleDir \o "/" \o GoBase(filePath)
        IN  /\ (goFiles' # goFiles \/ recycleCall' # recycleCall) =>
                  ( /\ (recycleCall'.err = "nil") =>
                          /\ filePath \in DOMAIN goFiles
                          /\ filePath \notin DOMAIN goFiles'
                          /\ \E d \in InRecycleDir(goFiles') :
                                /\ d \notin DOMAIN goFiles
                                /\ goFiles'[d] = goFiles[filePath]
                                /\ (base \notin DOMAIN goFiles) => d = base
                          /\ \A o \in DOMAIN goFiles \ {filePath} :
                                o \in DOMAIN goFiles' /\ goFiles'[o] = goFiles[o]
                    /\ (filePath \notin DOMAIN goFiles) =>
                          /\ recycleCall'.err # "nil"
                          /\ goFiles' = goFiles ) ]_vars

\* a file has been recycled through the copy-free or the copying way while
\* its base name was taken: it is at <name>_1 in the recycle directory
C27_Witness ==
    /\ recycleCall = [filePath |-> "h/a.jpg", err |-> "nil"]
    /\ "h/a.jpg" \notin DOMAIN goFiles
    /\ "bin/a.jpg" \in DOMAIN goFiles
    /\ "bin/a_1.jpg" \in DOMAIN goFiles
    /\ goFiles["bin/a_1.jpg"] = "h/a.jpg"

\* C28: GetDBInstance never returns a nil handle together with a nil error,
\* a handle it returns with a nil error is open when it is returned, and the
\* store is initialised at most once, also after CloseDb and with several
\* goroutines calling.
C28_HandleOrError ==
    [][ \A g \in Goroutines :
          (goCalls[g].pc = "return" /\ goCalls'[g].pc = "idle") =>
              /\ ~(goCalls'[g].db = "nil" /\ goCalls'[g].err = "nil")
              /\ (goCalls'[g].err = "nil") => ~goDb.closed
              /\ goDb.inits = 1 ]_vars

\* the two rows are in one duplicate group: one is marked a duplicate of the
\* other, or both of the same row
SameDuplicateGroup(r1, r2) ==
    \/ r1.is_duplicate /\ r1.duplicate_of = r2.id
    \/ r2.is_duplicate /\ r2.duplicate_of = r1.id
    \/ r1.is_duplicate /\ r2.is_duplicate /\ r1.duplicate_of = r2.duplicate_of

\* C29: once findDuplicates has run, two .jpg files whose bytes are the same
\* apart from their EXIF segments have the same md5 key and are in one
\* duplicate group, the length in every key is the length of the bytes that
\* were hashed, and two byte-identical files have the same key.
C29_SameHashAfterStrip ==
    (pcMain \in {"similar", "serving"}) =>
        /\ \A r1 \in images : \A r2 \in images :
              ( /\ r1.id # r2.id
                /\ IsJpegName(r1.file_path) /\ IsJpegName(r2.file_path)
                /\ FileBytes(r1.file_path) = FileBytes(r2.file_path) ) =>
                  (r1.md5 = r2.md5 /\ SameDuplicateGroup(r1, r2))
        /\ \A r \in images :
              r.md5[2] = (IF IsJpegName(r.file_path)
                          THEN FileSize(r.file_path) - ExifLength(r.file_path)
                          ELSE FileSize(r.file_path))
        /\ \A r1 \in images : \A r2 \in images :
              ( /\ FileBytes(r1.file_path) = FileBytes(r2.file_path)
                /\ Exif(r1.file_path) = Exif(r2.file_path) ) =>
                  r1.md5 = r2.md5

\* C30: the worker of a readable file of at least 10 KiB always ends with a
\* result for the coordinator to store; a failure to decode or to hash the
\* picture does not make it report an error and drop the file.
C30_DecodeFailureKeepsRecord ==
    [][ \A k \in Positions :
          ( /\ task[k] = "running"
            /\ task'[k] # "running"
            /\ stream[k] \in onDisk
            /\ ~IsSmall(stream[k]) ) =>
              task'[k] = "stat" ]_vars

\* the row differs from `o` at most in the fields named: is_duplicate and
\* duplicate_of for the resolver (main.ts:254), similar_images for the
\* similarity pass (main.ts:315)
OnlyMarksChanged(o, n) ==
    n = [o EXCEPT !.is_duplicate = n.is_duplicate, !.duplicate_of = n.duplicate_of]
OnlySimilarChanged(o, n) ==
    n = [o EXCEPT !.similar_images = n.similar_images]

\* C31: findDuplicates leaves the set of ids as it is and changes no field
\* of a row other than is_duplicate and duplicate_of; findSimilarImages
\* leaves the set of ids as it is and changes no field other than
\* similar_images; a step of a worker (its message or its error taken by
\* main) leaves the store as it is.
C31_PassesWriteOwnFields ==
    [][ /\ (pcMain = "dups" /\ pcMain' = "similar") =>
              /\ {n.id : n \in images'} = {o.id : o \in images}
              /\ Cardinality(images') = Cardinality(images)
              /\ \A o \in images : \A n \in images' :
                    (n.id = o.id) => OnlyMarksChanged(o, n)
        /\ (pcMain = "similar" /\ pcMain' # "similar") =>
              /\ {n.id : n \in images'} = {o.id : o \in images}
              /\ Cardinality(images') = Cardinality(images)
              /\ \A o \in images : \A n \in images' :
                    (n.id = o.id) => OnlySimilarChanged(o, n)
        /\ (\E k \in Positions : task[k] = "running" /\ task'[k] # "running") =>
              (images' = images /\ nextId' = nextId) ]_vars

\* both passes have run over two copies of one picture: the second row is
\* marked, the first has the second in its list, and both rows are
\* otherwise as they were inserted
C31_Witness ==
    /\ pcMain = "serving"
    /\ \E a \in images : \E b \in images :
          /\ b.is_duplicate /\ b.duplicate_of = a.id
          /\ a.similar_images = <<b.id>>
          /\ OnlySimilarChanged(NewRow(a.id, a.file_path), a)
          /\ OnlyMarksChanged(NewRow(b.id, b.file_path), b)

\* C32: while runProcessing is at work the buffer holds BATCH_SIZE entries or
\* more only while a flush is in progress, and a push that brings the buffer
\* to BATCH_SIZE or more is followed at once by a flush whose batch holds the
\* pushed entry, also when an earlier flush is still running.
C32_FullBufferIsFlushed ==
    [][ /\ (pcMain = "processing" /\ Len(imageInsertBuffer') >= BATCH_SIZE)
              => flushPromise' = "pending"
        /\ \A k \in Positions :
              ( /\ task[k] = "stat" /\ task'[k] = "delay"
                /\ Len(imageInsertBuffer) + 1 >= BATCH_SIZE ) =>
                  (flushPc' = "begin" /\ k \in SeqToSet(currentBatch')) ]_vars

\* C33: BEGIN TRANSACTION is issued only when no flush is running or in the
\* step that ends the previous flush with its COMMIT or ROLLBACK answered;
\* the batch then taken is the whole buffer and shares no result with the
\* batch before it; a result gets into the buffer only by the one push of its
\* handler, and is never held twice by the buffer and the batch together.
C33_OneFlushAtATime ==
    [][ /\ ( /\ flushPromise' = "pending"
             /\ flushPc' = "begin"
             /\ (flushPc # "begin" \/ currentBatch' # currentBatch) ) =>
              /\ flushPc \in {"idle", "commit", "rollback"}
              /\ flushPc = "idle" => flushPromise = "null"
              /\ imageInsertBuffer' = <<>>
              /\ SeqToSet(currentBatch') \cap SeqToSet(currentBatch) = {}
        /\ \A k \in (SeqToSet(imageInsertBuffer') \cup SeqToSet(currentBatch'))
                      \ (SeqToSet(imageInsertBuffer) \cup SeqToSet(currentBatch)) :
              task[k] = "stat" /\ task'[k] = "delay"
        /\ \A k \in Positions :
              (task'[k] = "stat" /\ task[k] # "stat") => task[k] = "running"
        /\ \A k \in Positions :
              (task'[k] = "running" /\ task[k] # "running") => task[k] = "pending"
        /\ Cardinality(SeqToSet(imageInsertBuffer') \cup SeqToSet(currentBatch'))
              = Len(imageInsertBuffer') + Len(currentBatch') ]_vars

\* a second batch is in its transaction after the first one was committed,
\* taken by a final flush that had waited for the first
C33_Witness ==
    /\ flushPc = "insert"
    /\ currentBatch = <<2>>
    /\ imageInsertBuffer = <<>>
    /\ \E r \in images : r.file_path = stream[1]
    /\ \E k \in Positions : task[k] = "awaitown"

\* the contents of the files in the recycle directory, each the EXIF segment
\* and the other bytes of the file that was moved there
RecycledContents(dir) ==
    {<<Exif(dir[n]), FileBytes(dir[n])>> :
        n \in {x \in RecycleNames : dir[x] # NoFile}}

\* C34: a step that moves files into the recycle directory (a small-file
\* move, findDuplicates under --auto-recycle-duplicates, a recycle request)
\* leaves the content of every file that was in the directory there; files
\* of one base name from different directories are no exception.
C34_RecycleKeepsEarlierFiles ==
    [][ RecycledContents(recycleDir) \subseteq RecycledContents(recycleDir') ]_vars

\* C35: when a recycle request has moved the file of a row, no row of the
\* store has the id of that row in its similar_images list and no group of
\* the similar view holds a row of that id.
C35_SimilarNamesLiveRows ==
    [][ (pcMain = "serving") =>
          \A d \in images :
              (d.file_path \in onDisk \ onDisk') =>
                  /\ \A r \in images' : d.id \notin SimilarGroup(r)
                  /\ \A r \in UNION SimilarGroups(images') : r.id # d.id ]_vars

\* C36: while the server runs, no row of the unique view is in a group of the
\* similar view or of the duplicates view, and the statistics count as
\* unique as many rows as the unique view has.
C36_ViewsAgree ==
    pcMain = "serving" =>
        /\ \A r \in ViewUnique(images) :
              /\ r \notin UNION SimilarGroups(images)
              /\ r \notin UNION DuplicateGroups(images)
        /\ Cardinality(StatsUnique(images)) = Cardinality(ViewUnique(images))

\* C37: when a recycle request has been answered and the file it named is
\* still at its path (the source was missing, the copy failed or the file
\* could not be removed), the rows are as they were before the request and
\* the answer reports failure.
C37_FailedRecycleLeavesStore ==
    [][ \A p \in GoPaths :
          ( /\ goResponse'.filePath = p
            /\ <<goFiles', goRows', goResponse'>> # <<goFiles, goRows, goResponse>>
            /\ (p \notin DOMAIN goFiles \/ p \in DOMAIN goFiles') ) =>
              (goRows' = goRows /\ ~goResponse'.Success) ]_vars

\* C38: when runProcessing has returned, the number of files main has
\* reported (processedCount, which counts the moved, the failed and the
\* extracted files alike) is the number of input paths.
C38_EveryPathCounted ==
    resolved => processedCount = Len(stream)

====
